---------------------------- MODULE Spec2Model ----------------------------
(***************************************************************************)
(* Receipt text-extraction pipeline of TGRecordsOfExpenses                 *)
(* (src/parser/parse_receipt.py).                                          *)
(*                                                                         *)
(* A text is a sequence of characters; a character is a one-character      *)
(* string, and a character outside ASCII is written by its code point      *)
(* ("U+0433" is the Cyrillic small letter GHE).                            *)
(***************************************************************************)
EXTENDS Integers, Sequences, FiniteSets

VARIABLES
    \* ---- one call of parse_receipt_text -------------------------------
    pc,                   \* the statement the call is at
    image_path,           \* argument: the suffix of the path (Path.suffix)
    tesseract_cmd_arg,    \* argument tesseract_cmd
    preserve_empty_lines, \* argument preserve_empty_lines
    env,                  \* the file system and PATH the call runs in
    tesseract_cmd,        \* pytesseract.pytesseract.tesseract_cmd (process-wide)
    cmd_at_entry,         \* value of tesseract_cmd when the call began
    error,                \* the exception the call raised, "none" if none
    image,                \* cv2.imread's result
    normalized_image,     \* _normalize_rotation's result
    candidates,           \* _generate_candidates's result
    vi, ci,               \* position of the nested loops (variant, config)
    best_text, best_score,
    result,               \* the list parse_receipt_text returns
    calls,                \* history: the (variant, config) pairs recognized
    hyps,                 \* history: the raw texts the engine returned
    resolve_calls,        \* history: calls of _resolve_tesseract_cmd
    which_calls,          \* history: calls of shutil.which
    osd_calls,            \* history: calls of pytesseract.image_to_osd
    \* ---- _postprocess_line applied to one line ------------------------
    lpc,                  \* "off", "line", "once" or "twice"
    parts,                \* the tokens the line is made of, if it is a price line
    line,                 \* the line given
    once,                 \* _postprocess_line(line)
    twice,                \* _postprocess_line(once)
    \* ---- calls of parse_receipt_text running in threads ---------------
    cpc,                  \* per thread: the statement its call is at
    carg,                 \* per thread: argument tesseract_cmd
    cresolved,            \* per thread: what line 353 resolved in this call
    cn,                   \* per thread: recognitions done
    cused,                \* per thread: the commands its recognitions ran
    \* ---- calls of extract_receipt_text one after the other ------------
    runs,                 \* history: arguments and text returned of each call
    \* ---- the bot's ContextManager and resolve_period_for_message ------
    _contexts,            \* user_id -> messages
    _last_cheque,         \* user_id -> chequeid
    _last_query,          \* user_id -> {type, params, result, username}
    _pending_cheques,     \* user_id -> pending data
    last_op,              \* history, per user: the last operation on the cache
    rpc,                  \* "off", "idle" or "resolved"
    asked,                \* the arguments of resolve_period_for_message
    resolved,             \* what resolve_period_for_message returned
    \* ---- aggregate_category2_by_category1 applied to a record list ----
    apc,                  \* "off", "given" or "done"
    records,              \* argument records
    category1_value,      \* argument category1_value
    normalize,            \* what _normalize_text returns in this process
    rows,                 \* the list returned
    \* ---- _normalize_cyrillic applied to a text -------------------------
    npc,                  \* "off", "given" or "done"
    norm_arg,             \* argument text
    normalized,           \* the text returned
    \* ---- the cheque callbacks of bot.py and the purchases table ------
    purchases,            \* the purchases table: one entry per bulk insert, in the order made
    files,                \* the cheque files on disk
    handlers,             \* per slot: the callback handler running in it and where it is
    drafts,               \* history: the number of drafts made
    started,              \* history: the number of handlers started
    \* ---- the ContextManager taken alone -------------------------------
    added,                \* history: per user, the messages added since clear_context
    called,               \* history: the last operation called and its user
    op_count              \* history: the number of operations called

vars == <<pc, image_path, tesseract_cmd_arg, preserve_empty_lines, env,
          tesseract_cmd, cmd_at_entry, error, image, normalized_image,
          candidates, vi, ci, best_text, best_score, result, calls, hyps,
          resolve_calls, which_calls, osd_calls, lpc, parts, line, once, twice,
          cpc, carg, cresolved, cn, cused, runs,
          _contexts, _last_cheque, _last_query, _pending_cheques,
          last_op, rpc, asked, resolved,
          apc, records, category1_value, normalize, rows,
          npc, norm_arg, normalized,
          purchases, files, handlers, drafts, started,
          added, called, op_count>>

pipeline_vars == <<pc, image_path, tesseract_cmd_arg, preserve_empty_lines, env,
          tesseract_cmd, cmd_at_entry, error, image, normalized_image,
          candidates, vi, ci, best_text, best_score, result, calls, hyps,
          resolve_calls, which_calls, osd_calls>>

line_vars == <<lpc, parts, line, once, twice>>

conc_vars == <<cpc, carg, cresolved, cn, cused>>

ctx_vars == <<_contexts, _last_cheque, _last_query, _pending_cheques,
              last_op, rpc, asked, resolved>>

agg_vars == <<apc, records, category1_value, normalize, rows>>

norm_vars == <<npc, norm_arg, normalized>>

bot_vars == <<purchases, files, handlers, drafts, started>>

sess_vars == <<added, called, op_count>>

\* what the steps of the single call leave alone
outside_pipeline == <<line_vars, conc_vars, runs, ctx_vars, agg_vars, norm_vars, bot_vars, sess_vars>>
\* what the application of _postprocess_line leaves alone
outside_line == <<pipeline_vars, conc_vars, runs, ctx_vars, agg_vars, norm_vars, bot_vars, sess_vars>>
\* what the calls in threads leave alone, tesseract_cmd aside
outside_conc == <<line_vars, runs, ctx_vars, agg_vars, norm_vars, bot_vars, sess_vars>>
\* what the ContextManager leaves alone
outside_ctx == <<pipeline_vars, line_vars, conc_vars, runs, agg_vars, norm_vars, bot_vars, sess_vars>>
\* what the aggregation leaves alone
outside_agg == <<pipeline_vars, line_vars, conc_vars, runs, ctx_vars, norm_vars, bot_vars, sess_vars>>
\* what the application of _normalize_cyrillic leaves alone
outside_norm == <<pipeline_vars, line_vars, conc_vars, runs, ctx_vars, agg_vars, bot_vars, sess_vars>>
\* what the cheque callbacks leave alone, the ContextManager aside
outside_bot == <<pipeline_vars, line_vars, conc_vars, runs, agg_vars, norm_vars, sess_vars>>
\* what the operations of the ContextManager leave alone
outside_sess == <<pipeline_vars, line_vars, conc_vars, runs, agg_vars, norm_vars, bot_vars>>

-----------------------------------------------------------------------------
(* Characters.                                                             *)

Digits == {"0", "1", "2", "3", "4", "5", "6", "7", "8", "9"}
DigitSeq == <<"0", "1", "2", "3", "4", "5", "6", "7", "8", "9">>
\* str.strip() and the regular expressions' \s
Whitespace == {" ", "\t", "\n", "\r", "\f"}
\* str.splitlines() breaks a text at these
LineBreaks == {"\n", "\r", "\f"}
DecimalSeps == {".", ","}

CyrGhe == "U+0433"
CyrN == "U+041D"
CyrD == "U+0414"
CyrS == "U+0421"
CyrO == "U+041E"

Min(a, b) == IF a < b THEN a ELSE b
MinOf(S) == CHOOSE x \in S : \A y \in S : x <= y
MaxOf(S) == CHOOSE x \in S : \A y \in S : y <= x
Max(a, b) == IF a > b THEN a ELSE b

RECURSIVE Pow10(_)
Pow10(n) == IF n = 0 THEN 1 ELSE 10 * Pow10(n - 1)

-----------------------------------------------------------------------------
(* Character classes (str.isalpha, str.isdigit, the regular expressions'   *)
(* \w and [A-YA]) over the characters the model uses.                      *)

LatinUpper ==
    {"A", "B", "C", "D", "E", "F", "G", "H",
    "I", "J", "K", "L", "M", "N", "O", "P",
    "Q", "R", "S", "T", "U", "V", "W", "X",
    "Y", "Z"}
LatinLower ==
    {"a", "b", "c", "d", "e", "f", "g", "h",
    "i", "j", "k", "l", "m", "n", "o", "p",
    "q", "r", "s", "t", "u", "v", "w", "x",
    "y", "z"}
\* U+0410..U+042F, the range [A-YA] of the regular expression on line 238
CyrUpperRange ==
    {"U+0410", "U+0411", "U+0412", "U+0413", "U+0414", "U+0415",
    "U+0416", "U+0417", "U+0418", "U+0419", "U+041A", "U+041B",
    "U+041C", "U+041D", "U+041E", "U+041F", "U+0420", "U+0421",
    "U+0422", "U+0423", "U+0424", "U+0425", "U+0426", "U+0427",
    "U+0428", "U+0429", "U+042A", "U+042B", "U+042C", "U+042D",
    "U+042E", "U+042F"}
\* U+0430..U+044F
CyrLowerRange ==
    {"U+0430", "U+0431", "U+0432", "U+0433", "U+0434", "U+0435",
    "U+0436", "U+0437", "U+0438", "U+0439", "U+043A", "U+043B",
    "U+043C", "U+043D", "U+043E", "U+043F", "U+0440", "U+0441",
    "U+0442", "U+0443", "U+0444", "U+0445", "U+0446", "U+0447",
    "U+0448", "U+0449", "U+044A", "U+044B", "U+044C", "U+044D",
    "U+044E", "U+044F"}
\* "\u0400" <= ch <= "\u04FF" (line 217): the letters above, IO and io
Cyrillic == CyrUpperRange \cup CyrLowerRange \cup {"U+0401", "U+0451"}
\* str.isalpha()
Alpha == LatinUpper \cup LatinLower \cup Cyrillic
\* \w
IsWord(ch) == ch \in Alpha \cup Digits \cup {"_"}

\* sum(1 for ch in s if ch in S)
Count(s, S) == Cardinality({i \in 1..Len(s) : s[i] \in S})

\* lines 185-209
_LATIN_TO_CYR == {
    <<"A", "U+0410">>,
    <<"B", "U+0412">>,
    <<"C", "U+0421">>,
    <<"E", "U+0415">>,
    <<"H", "U+041D">>,
    <<"K", "U+041A">>,
    <<"M", "U+041C">>,
    <<"O", "U+041E">>,
    <<"P", "U+0420">>,
    <<"T", "U+0422">>,
    <<"X", "U+0425">>,
    <<"Y", "U+0423">>,
    <<"W", "U+0428">>,
    <<"a", "U+0430">>,
    <<"c", "U+0441">>,
    <<"e", "U+0435">>,
    <<"o", "U+043E">>,
    <<"p", "U+0440">>,
    <<"x", "U+0445">>,
    <<"y", "U+0443">>,
    <<"w", "U+0448">>}
Translate(ch) ==
    IF \E p \in _LATIN_TO_CYR : p[1] = ch
    THEN (CHOOSE p \in _LATIN_TO_CYR : p[1] = ch)[2] ELSE ch

\* the dictionary on lines 241-287, in its order
replacements == <<
    <<<<"H", "A", "C">>, <<"U+041D", "U+0414", "U+0421">>>>,
    <<<<"U+041D", "U+0410", "U+0421">>, <<"U+041D", "U+0414", "U+0421">>>>,
    <<<<"U+0412", "U+0415", "U+0417", "U+041D", "U+0410", "U+041B", "U+0418", "U+0427", "U+041D", "U+042B", "U+041C", "U+0418">>, <<"U+0411", "U+0415", "U+0417", "U+041D", "U+0410", "U+041B", "U+0418", "U+0427", "U+041D", "U+042B", "U+041C", "U+0418">>>>,
    <<<<"U+0412", "U+0415", "U+0417", "U+041D", "U+0410", "U+0418", "U+0418", "U+0427", "U+041D", "U+042B", "U+041C", "U+0418">>, <<"U+0411", "U+0415", "U+0417", "U+041D", "U+0410", "U+041B", "U+0418", "U+0427", "U+041D", "U+042B", "U+041C", "U+0418">>>>,
    <<<<"U+041F", "U+0415", "U+041D", "U+0422", "U+0410">>, <<"U+041B", "U+0415", "U+041D", "U+0422", "U+0410">>>>,
    <<<<"U+0415", "U+0412", "U+0415", "U+0417", "U+041D">>, <<"F", "R", "E", "S", "H">>>>,
    <<<<"U+041A", "U+041E", "U+0422", "U+0422", "U+041E">>, <<"M", "O", "J", "I", "T", "O">>>>,
    <<<<"U+041F", "U+0418", "U+041C", "U+041E", "U+041D", "U+042B">>, <<"U+041B", "U+0418", "U+041C", "U+041E", "U+041D", "U+042B">>>>,
    <<<<"U+041D", "U+0410", "U+0419", "U+041E", "U+041D", "U+0415", "U+0417">>, <<"U+041C", "U+0410", "U+0419", "U+041E", "U+041D", "U+0415", "U+0417">>>>,
    <<<<"U+0412", "U+041E", "U+041A", "U+041E", "U+041B", "U+0410", "U+0414">>, <<"U+0428", "U+041E", "U+041A", "U+041E", "U+041B", "U+0410", "U+0414">>>>,
    <<<<"U+0412", "U+041E", "U+041A", "U+041E", "U+041B", "U+0410", "U+0419">>, <<"U+0428", "U+041E", "U+041A", "U+041E", "U+041B", "U+0410", "U+0414">>>>,
    <<<<"U+041A", "U+041E", "U+041A", " ", "U+0422", "U+0415", "U+041D", "U+041D", " ", "U+041A", "U+041E", "U+041D", "U+0424", "U+0415", "U+0421", "U+0422", "U+0410", " ", "U+0421", "U+041D", " ", "U+0420">>, <<"U+041A", "U+041E", "U+041D", "U+0424", "U+0415", "U+0422", "U+042B", " ", "U+0421", "U+041D", " ", "U+0420">>>>,
    <<<<"U+0415", "U+0412", " ", "U+0420", "U+0415", "U+0417">>, <<"U+0416", "U+0415", "U+0412", " ", "U+0420", "U+0415", "U+0417">>>>,
    <<<<"U+041E", "U+0413", "U+041A", "U+041E", "U+0413">>, <<"U+0414", "U+0420", "U+041E", "U+041F">>>>,
    <<<<"U+0425", "-", "F", "R", "E", "S", "H">>, <<"X", "-", "F", "R", "E", "S", "H">>>>,
    <<<<"U+0417", "/", "U+041B", "U+0410", "U+0421", "U+0422", "U+0410">>, <<"U+0417", "/", "U+041F", "U+0410", "U+0421", "U+0422", "U+0410">>>>,
    <<<<"U+0417", "U+0420", "U+0415", "U+0410", "U+0422">>, <<"S", "P", "L", "A", "T">>>>,
    <<<<"U+0418", "U+0415", "U+0427", "U+0415", "U+0411", "U+041D", "U+042B", "U+0415">>, <<"U+041B", "U+0415", "U+0427", "U+0415", "U+0411", "U+041D", "U+042B", "U+0415">>>>,
    <<<<"U+041C", "U+0410", "U+0419", "U+041E", "U+041D", "U+0415", "U+0417", " ", "U+042F", "U+041D", "U+0422", "U+0410", " ", "U+041F", "U+0420", "U+041E", "U+0412", "U+0410", "U+041D", "U+0421", "U+0410", "U+0419">>, <<"U+041C", "U+0410", "U+0419", "U+041E", "U+041D", "U+0415", "U+0417", " ", "U+042F", "U+041D", "U+0422", "U+0410", " ", "U+041F", "U+0420", "U+041E", "U+0412", "U+0410", "U+041D", "U+0421", "U+0410", "U+041B", "U+042C">>>>,
    <<<<"U+0422", "I", "U+0422", "U+0412", "I", "U+0422">>, <<"T", "I", "T", "B", "I", "T">>>>,
    <<<<"D", "I", "R", "O", "L">>, <<"D", "I", "R", "O", "L">>>>,
    <<<<"U+041A", "U+041E", "U+041B", "U+0418", "U+042F">>, <<"U+041A", "U+041E", "U+041F", "U+0418", "U+042F">>>>,
    <<<<"U+0421", "U+041C", "U+0415", "U+041D", "U+0410", " ", "N">>, <<"U+0421", "U+041C", "U+0415", "U+041D", "U+0410", " ", "U+2116">>>>,
    <<<<"U+041E", "U+0411", "U+0418", ".">>, <<"U+041E", "U+0411", "U+041B", ".">>>>,
    <<<<"U+041D", "U+0414", "U+0421", " ", "2", "0", "2">>, <<"U+041D", "U+0414", "U+0421", " ", "2", "0", "%">>>>,
    <<<<"U+041D", "U+0414", "U+0421", " ", "1", "0", "2">>, <<"U+041D", "U+0414", "U+0421", " ", "1", "0", "%">>>>,
    <<<<"U+041D", "U+0414", "U+0421", " ", "2", "0", "3">>, <<"U+041D", "U+0414", "U+0421", " ", "2", "0", "%">>>>,
    <<<<"U+041D", "U+0414", "U+0421", " ", "1", "0", "3">>, <<"U+041D", "U+0414", "U+0421", " ", "1", "0", "%">>>>,
    <<<<"F", "R", "U+0415", "S", "U+041D">>, <<"F", "R", "E", "S", "H">>>>,
    <<<<"U+0436", "U+043A">>, <<>>>>,
    <<<<"U+041A", "U+0423", "U+0411", " ", "1", "7", "4", ".", "9", "9", " ", "2", "1", ".", "2", "0", "0">>, <<"U+041A", "U+0423", "U+0411", " ", "1", "7", "4", ".", "9", "9", " ", "*", "1", ".", "2", "0", "0">>>>,
    <<<<"U+203A", "U+041F", "U+0420", "U+041E", "U+0414", "U+0410", "U+0412", "U+0410", " ", "U+0422", "U+041E", "U+0412", "U+0410", "U+0420", "U+0410", "U+00BB">>, <<"U+041F", "U+0420", "U+041E", "U+0414", "U+0410", "U+0416", "U+0410", " ", "U+0422", "U+041E", "U+0412", "U+0410", "U+0420", "U+0410">>>>,
    <<<<"U+041F", "U+0420", "U+041E", "U+0414", "U+0410", "U+0412", "U+0410", " ", "U+0422", "U+041E", "U+0412", "U+0410", "U+0420", "U+0410">>, <<"U+041F", "U+0420", "U+041E", "U+0414", "U+0410", "U+0416", "U+0410", " ", "U+0422", "U+041E", "U+0412", "U+0410", "U+0420", "U+0410">>>>,
    <<<<"U+0428", "U+0410", "U+041A", "U+041E", "N", "U+0410", "U+0410">>, <<"U+0428", "U+041E", "U+041A", "U+041E", "U+041B", "U+0410", "U+0414">>>>,
    <<<<"U+0428", "U+041E", "U+041A", "U+041E", "N", "U+0410", "U+0410">>, <<"U+0428", "U+041E", "U+041A", "U+041E", "U+041B", "U+0410", "U+0414">>>>,
    <<<<"U+0428", "U+041E", "U+041A", " ", "U+0422", "U+0415", "U+041C", "U+041D">>, <<"U+0428", "U+041E", "U+041A", "U+041E", "U+041B", "U+0410", "U+0414", " ", "U+0422", "U+0415", "U+041C", "U+041D">>>>,
    <<<<"Q", "/", "U+0421", "U+041E", "U+0412">>, <<"U+0414", "/", "U+0421", "U+041E", "U+0412">>>>,
    <<<<"U+041E", "N", "U+041E", "N">>, <<"U+041E", "U+041F", "U+041E", "U+041B">>>>,
    <<<<"U+0428", "U+0415", "U+0412">>, <<"U+0416", "U+0415", "U+0412">>>>,
    <<<<"D", "I", "R", "U+041E", "L">>, <<"D", "I", "R", "O", "L">>>>,
    <<<<"U+042D", "U+041F", "U+0420", "U+041E", "U+0414", "U+0410", "U+0416", "U+0410">>, <<"U+041F", "U+0420", "U+041E", "U+0414", "U+0410", "U+0416", "U+0410">>>>,
    <<<<"U+0410", "U+0415", "U+0421">>, <<"U+0414", "U+0415", "U+0421">>>>,
    <<<<"U+041A", "U+041E", "U+041D", "U+0424", "U+0415", "U+0421", "U+0422", "U+0410">>, <<"U+041A", "U+041E", "U+041D", "U+0424", "U+0415", "U+0422", "U+042B">>>>,
    <<<<"U+0414", "U+0423", "U+0419">>, <<"U+0414", "/", "U+0419">>>>,
    <<<<"U+0420", "U+0415", "S">>, <<"U+0420", "U+0415", "U+0417">>>>>>

\* line 219
keywords == {
    <<"U+041E", "U+041E", "U+041E">>,
    <<"U+041A", "U+0410", "U+0421", "U+0421", "U+041E", "U+0412", "U+042B", "U+0419">>,
    <<"U+041D", "U+0414", "U+0421">>,
    <<"U+041A", "U+0410", "U+0421", "U+0421", "U+0418", "U+0420">>,
    <<"U+0421", "U+0423", "U+041C", "U+041C", "U+0410">>}

-----------------------------------------------------------------------------
(* String primitives (positions are 1-based; an end position is the        *)
(* position after the last character).                                    *)

\* F applied to the value of v, which is computed once
Strict(v, F(_)) == CHOOSE r \in {F(x) : x \in {v}} : TRUE

\* the length of the longest run of characters of S starting at position i
RECURSIVE Run(_, _, _)
Run(s, i, S) ==
    IF i >= 1 /\ i <= Len(s) /\ s[i] \in S THEN 1 + Run(s, i + 1, S) ELSE 0

At(s, i) == IF i >= 1 /\ i <= Len(s) THEN s[i] ELSE "EOS"

\* s[i:] of Python, for a 1-based i
From(s, i) == IF i > Len(s) THEN <<>> ELSE SubSeq(s, i, Len(s))
\* s[:i] of Python: the characters before position i
Upto(s, i) == SubSeq(s, 1, Min(i - 1, Len(s)))

StartsWith(s, p) == Len(s) >= Len(p) /\ SubSeq(s, 1, Len(p)) = p

\* str.strip()
Strip(s0) ==
    Strict(s0, LAMBDA s :
        LET K == {j \in 1..Len(s) : s[j] \notin Whitespace}
        IN  IF K = {} THEN <<>> ELSE SubSeq(s, MinOf(K), MaxOf(K)))

\* str.replace(old, new) from position i on: leftmost, non-overlapping
RECURSIVE ReplaceFrom(_, _, _, _)
ReplaceFrom(s, i, old, new) ==
    LET M == {j \in i..(Len(s) - Len(old) + 1) : SubSeq(s, j, j + Len(old) - 1) = old}
    IN  IF M = {} THEN From(s, i)
        ELSE Strict(MinOf(M), LAMBDA j :
                 SubSeq(s, i, j - 1) \o new \o ReplaceFrom(s, j + Len(old), old, new))

\* str.replace(old, new), old non-empty
Replace(s0, old, new) == Strict(s0, LAMBDA s : ReplaceFrom(s, 1, old, new))

\* old in s
Contains(s, old) ==
    \E j \in 1..(Len(s) - Len(old) + 1) : SubSeq(s, j, j + Len(old) - 1) = old

-----------------------------------------------------------------------------
(* Decimal numbers: float(token.replace(",", ".")), kept exact as          *)
(* mant / 10^scale.  Binary rounding of the float is not modelled.        *)

DigitVal(ch) == (CHOOSE k \in 1..10 : DigitSeq[k] = ch) - 1

RECURSIVE NatOf(_)
NatOf(ds) ==
    IF ds = <<>> THEN 0
    ELSE 10 * NatOf(SubSeq(ds, 1, Len(ds) - 1)) + DigitVal(ds[Len(ds)])

RECURSIVE NatToDigits(_)
NatToDigits(n) ==
    IF n < 10 THEN <<DigitSeq[n + 1]>>
    ELSE NatToDigits(n \div 10) \o <<DigitSeq[(n % 10) + 1]>>

\* float() of a token matching \d+[.,]?\d*
ParseDecimal(tok) ==
    LET a == Run(tok, 1, Digits)
        frac == IF a < Len(tok) THEN From(tok, a + 2) ELSE <<>>
    IN  [mant |-> NatOf(SubSeq(tok, 1, a) \o frac), scale |-> Len(frac)]

\* round(price * qty, 2), in hundredths
ExpectedCents(price, qty) ==
    LET mant == price.mant * qty.mant
        scale == price.scale + qty.scale
    IN  IF scale <= 2 THEN mant * Pow10(2 - scale)
        ELSE LET d == Pow10(scale - 2)
                 q == mant \div d
                 r == mant % d
             IN  IF 2 * r > d \/ (2 * r = d /\ q % 2 = 1) THEN q + 1 ELSE q

\* abs(expected - total) > 0.02
TotalIsOff(cents, total) ==
    LET S == Max(2, total.scale)
        e == cents * Pow10(S - 2)
        t == total.mant * Pow10(S - total.scale)
        diff == IF e > t THEN e - t ELSE t - e
    IN  diff > 2 * Pow10(S - 2)

\* f"{expected:.2f}"
FormatCents(cents) ==
    NatToDigits(cents \div 100) \o <<".">>
        \o <<DigitSeq[((cents % 100) \div 10) + 1], DigitSeq[(cents % 10) + 1]>>

-----------------------------------------------------------------------------
(* The regular expressions of _postprocess_line.  Each matcher follows     *)
(* Python's backtracking order; a failed match has end position 0.         *)

\* \d+[.,]\d+ at position i: the end position, 0 if there is no match
DecimalEnd(s, i) ==
    LET a == Run(s, i, Digits)
        b == Run(s, i + a + 1, Digits)
    IN  IF a > 0 /\ At(s, i + a) \in DecimalSeps /\ b > 0
        THEN i + a + 1 + b ELSE 0

NoMulMatch == [end |-> 0, price_end |-> 0, qty_start |-> 0, qty_end |-> 0]

\* (?P<qty>\d+)\s*= at position qs, after a price ending at pe
MulQtyAt(s, pe, qs) ==
    Strict(qs + Run(s, qs, Digits), LAMBDA qe :
        IF qe > qs /\ At(s, qe + Run(s, qe, Whitespace)) = "="
        THEN [end |-> qe + Run(s, qe, Whitespace) + 1, price_end |-> pe,
              qty_start |-> qs, qty_end |-> qe]
        ELSE NoMulMatch)

\* (?P<price>\d+[.,]\d+)\s+(?P<qty>\d+)\s*= at position i
MulMatchAt(s, i) ==
    Strict(DecimalEnd(s, i), LAMBDA pe :
        IF pe = 0 \/ At(s, pe) \notin Whitespace THEN NoMulMatch
        ELSE MulQtyAt(s, pe, pe + Run(s, pe, Whitespace)))

\* re.sub of that pattern by "<price> *<qty> =", scanning from position i
RECURSIVE InsertMulFrom(_, _)
InsertMulFrom(s, i) ==
    LET M == {j \in i..Len(s) : MulMatchAt(s, j).end # 0}
    IN  IF M = {} THEN From(s, i)
        ELSE Strict(MulMatchAt(s, MinOf(M)), LAMBDA m :
                 SubSeq(s, i, m.price_end - 1) \o <<" ", "*">>
                    \o SubSeq(s, m.qty_start, m.qty_end - 1) \o <<" ", "=">>
                    \o InsertMulFrom(s, m.end))

\* line 310
InsertMul(s0) == Strict(s0, LAMBDA s : InsertMulFrom(s, 1))

NoMatch ==
    [start |-> 0, end |-> 0, price_end |-> 0, qty_start |-> 0, qty_end |-> 0,
     total_start |-> 0]

\* \s*=*\s*(?P<total>\d+[.,]\d+) at position e: <<start, end>> of total
TotalAt(s, e) ==
    Strict(e + Run(s, e, Whitespace), LAMBDA a :
        Strict(a + Run(s, a, {"="}), LAMBDA b :
            Strict(b + Run(s, b, Whitespace), LAMBDA ts :
                <<ts, DecimalEnd(s, ts)>>)))

\* (?P<qty>\d+[.,]?\d*) and the rest of the pattern at position qs.  The
\* quantity gives back characters one at a time, so its end is the largest
\* one after which the rest of the pattern matches.
PriceQtyRest(s, i, pe, qs) ==
    LET d1 == Run(s, qs, Digits)
        maxend == IF At(s, qs + d1) \in DecimalSeps
                  THEN qs + d1 + 1 + Run(s, qs + d1 + 1, Digits)
                  ELSE qs + d1
        ends == {e \in (qs + 1)..maxend : TotalAt(s, e)[2] # 0}
    IN  IF d1 = 0 \/ ends = {} THEN NoMatch
        ELSE Strict(MaxOf(ends), LAMBDA qe :
                 Strict(TotalAt(s, qe), LAMBDA t :
                     [start |-> i, end |-> t[2], price_end |-> pe,
                      qty_start |-> qs, qty_end |-> qe, total_start |-> t[1]]))

\* _PRICE_QTY_PATTERN at position i
_PRICE_QTY_PATTERN(s, i) ==
    Strict(DecimalEnd(s, i), LAMBDA pe :
        IF pe = 0 THEN NoMatch
        ELSE Strict(pe + Run(s, pe, Whitespace), LAMBDA a :
                 IF At(s, a) = "*" THEN PriceQtyRest(s, i, pe, a + 1)
                 ELSE IF a > pe THEN PriceQtyRest(s, i, pe, a)
                 ELSE NoMatch))

\* _PRICE_QTY_PATTERN.search(text): the leftmost match
Search(s0) ==
    Strict(s0, LAMBDA s :
        LET M == {j \in 1..Len(s) : _PRICE_QTY_PATTERN(s, j).end # 0}
        IN  IF M = {} THEN NoMatch ELSE _PRICE_QTY_PATTERN(s, MinOf(M)))

\* lines 326-331: the offsets are those of the match in the text before the
\* edit of line 324
RestoreEquals(t0, m) ==
    Strict(t0, LAMBDA t :
        IF ~Contains(SubSeq(t, m.start, Min(m.end - 1, Len(t))), <<"=">>)
        THEN Upto(t, m.qty_end) \o <<" ", "=">> \o From(t, m.qty_end)
        ELSE t)

\* the body of "if match:" (lines 315-331)
Repair(text, m) ==
    LET price == ParseDecimal(SubSeq(text, m.start, m.price_end - 1))
        qty == ParseDecimal(SubSeq(text, m.qty_start, m.qty_end - 1))
        total == ParseDecimal(SubSeq(text, m.total_start, m.end - 1))
    IN  Strict(ExpectedCents(price, qty), LAMBDA expected :
            RestoreEquals(
                IF TotalIsOff(expected, total)
                THEN Upto(text, m.total_start) \o FormatCents(expected)
                         \o From(text, m.end)
                ELSE text, m))

\* re.sub(r"\s*=\s*", " = ", text), scanning from position i
RECURSIVE SpaceEqualsFrom(_, _)
SpaceEqualsFrom(s, i) ==
    LET M == {j \in i..Len(s) : At(s, j + Run(s, j, Whitespace)) = "="}
    IN  IF M = {} THEN From(s, i)
        ELSE Strict(MinOf(M), LAMBDA j :
                 Strict(j + Run(s, j, Whitespace) + 1, LAMBDA e :
                     SubSeq(s, i, j - 1) \o <<" ", "=", " ">>
                        \o SpaceEqualsFrom(s, e + Run(s, e, Whitespace))))

\* line 340
SpaceEquals(s0) == Strict(s0, LAMBDA s : SpaceEqualsFrom(s, 1))

\* re.sub(r"\s+", " ", text), scanning from position i
RECURSIVE CollapseSpaceFrom(_, _)
CollapseSpaceFrom(s, i) ==
    LET M == {j \in i..Len(s) : s[j] \in Whitespace}
    IN  IF M = {} THEN From(s, i)
        ELSE Strict(MinOf(M), LAMBDA j :
                 SubSeq(s, i, j - 1) \o <<" ">>
                    \o CollapseSpaceFrom(s, j + Run(s, j, Whitespace)))

\* line 341
CollapseSpace(s0) == Strict(s0, LAMBDA s : CollapseSpaceFrom(s, 1))

\* the quote and the digit are replaced by "*" alone
RECURSIVE QuoteDigitsDropDigit(_, _)
QuoteDigitsDropDigit(s, digit) ==
    IF digit > 5 THEN s
    ELSE QuoteDigitsDropDigit(Replace(s, <<"\"", DigitSeq[digit + 1]>>, <<"*">>),
                              digit + 1)

\* for digit in range(1, 6): text.replace(f"\"{digit}", f"*{digit}")
RECURSIVE QuoteDigits(_, _)
QuoteDigits(s, digit) ==
    IF digit > 5 THEN s
    ELSE QuoteDigits(Replace(s, <<"\"", DigitSeq[digit + 1]>>,
                                <<"*", DigitSeq[digit + 1]>>), digit + 1)

NDS20 == <<CyrN, CyrD, CyrS, " ", "2", "0">>
NDS10 == <<CyrN, CyrD, CyrS, " ", "1", "0">>

\* lines 337-342
TidyRest(t0) ==
    Strict(t0, LAMBDA t :
        IF t \in {<<CyrGhe>>, <<"1">>} THEN <<>>
        ELSE Strip(CollapseSpace(SpaceEquals(
                 Replace(t, <<"\"", "\"">>, <<"\"">>)))))

\* lines 333-342
Tidy(t0) ==
    Strict(t0, LAMBDA text :
        IF StartsWith(text, <<"=", "=", "=">>) THEN <<>>
        ELSE TidyRest(IF StartsWith(text, <<CyrGhe, " ">>)
                      THEN Strip(From(text, 3)) ELSE text))

\* lines 315-331
RepairIfMatch(t0) ==
    Strict(t0, LAMBDA text :
        Strict(Search(text), LAMBDA match :
            IF match.end # 0 THEN Repair(text, match) ELSE text))

\* lines 303-311: the text _PRICE_QTY_PATTERN is searched in
SubstituteOperators(text) ==
    InsertMul(QuoteDigits(
        Replace(Replace(Replace(text, <<"#">>, <<"*">>),
                        NDS20 \o <<":">>, NDS20 \o <<"%">>),
                NDS10 \o <<":">>, NDS10 \o <<"%">>), 1))

_postprocess_line(l) ==
    Strict(Strip(l), LAMBDA text :
        IF text = <<>> THEN text
        ELSE Tidy(RepairIfMatch(SubstituteOperators(text))))

-----------------------------------------------------------------------------
(* _normalize_cyrillic (lines 232-290).                                    *)

TranslateAll(s0) == Strict(s0, LAMBDA s : [i \in 1..Len(s) |-> Translate(s[i])])

\* re.sub(r"[ ]{2,}", " ", text), scanning from position i
RECURSIVE CollapseBlanksFrom(_, _)
CollapseBlanksFrom(s, i) ==
    LET M == {j \in i..Len(s) : Run(s, j, {" "}) >= 2}
    IN  IF M = {} THEN From(s, i)
        ELSE Strict(MinOf(M), LAMBDA j :
                 SubSeq(s, i, j - 1) \o <<" ">>
                    \o CollapseBlanksFrom(s, j + Run(s, j, {" "})))

\* line 260
CollapseBlanks(s0) == Strict(s0, LAMBDA s : CollapseBlanksFrom(s, 1))

\* \b0([A-YA]) at position j
ZeroAt(s, j) ==
    /\ s[j] = "0"
    /\ At(s, j + 1) \in CyrUpperRange
    /\ (j = 1 \/ ~IsWord(s[j - 1]))

\* re.sub(r"\b0([A-YA])", r"O\1", text), scanning from position i
RECURSIVE ZeroToOFrom(_, _)
ZeroToOFrom(s, i) ==
    LET M == {j \in i..Len(s) : ZeroAt(s, j)}
    IN  IF M = {} THEN From(s, i)
        ELSE Strict(MinOf(M), LAMBDA j :
                 SubSeq(s, i, j - 1) \o <<CyrO, s[j + 1]>> \o ZeroToOFrom(s, j + 2))

ZeroToO(s0) == Strict(s0, LAMBDA s : ZeroToOFrom(s, 1))

LENTA == <<"U+041B", "U+0415", "U+041D", "U+0422", "U+0410">>

\* "?LENTA"? at position n, after 000\s+: the end position, 0 if no match
LentaNameEnd(s, n) ==
    IF n + 4 <= Len(s) /\ SubSeq(s, n, n + 4) = LENTA
    THEN IF At(s, n + 5) = "\"" THEN n + 6 ELSE n + 5
    ELSE 0

\* 000\s+"?LENTA"? at position i: the end position, 0 if there is no match
LentaEnd(s, i) ==
    IF i + 2 <= Len(s) /\ SubSeq(s, i, i + 2) = <<"0", "0", "0">>
          /\ At(s, i + 3) \in Whitespace
    THEN Strict(i + 3 + Run(s, i + 3, Whitespace), LAMBDA q :
             LentaNameEnd(s, IF At(s, q) = "\"" THEN q + 1 ELSE q))
    ELSE 0

\* re.sub(r'000\s+"?LENTA"?', 'OOO "LENTA"', text), scanning from position i
RECURSIVE FixLentaFrom(_, _)
FixLentaFrom(s, i) ==
    LET M == {j \in i..Len(s) : LentaEnd(s, j) # 0}
    IN  IF M = {} THEN From(s, i)
        ELSE Strict(MinOf(M), LAMBDA j :
                 SubSeq(s, i, j - 1) \o <<CyrO, CyrO, CyrO, " ", "\"">> \o LENTA
                    \o <<"\"">> \o FixLentaFrom(s, LentaEnd(s, j)))

FixLenta(s0) == Strict(s0, LAMBDA s : FixLentaFrom(s, 1))

\* for wrong, right in replacements.items(): from entry k on.  An entry
\* whose wrong does not occur in the text changes nothing, so the next entry
\* applied is the first one that occurs.
RECURSIVE ApplyReplacements(_, _)
ApplyReplacements(s0, k) ==
    Strict(s0, LAMBDA s :
        LET K == {j \in k..Len(replacements) : Contains(s, replacements[j][1])}
        IN  IF K = {} THEN s
            ELSE Strict(MinOf(K), LAMBDA j :
                     ApplyReplacements(
                         Replace(s, replacements[j][1], replacements[j][2]), j + 1)))

_normalize_cyrillic(text) ==
    ApplyReplacements(
        FixLenta(
            Replace(Replace(
                ZeroToO(CollapseBlanks(
                    Replace(Replace(
                        TranslateAll(
                            Replace(Replace(
                                Replace(Replace(Replace(text,
                                    <<"U+201C">>, <<"\"">>),
                                    <<"U+201D">>, <<"\"">>),
                                    <<"U+201E">>, <<"\"">>),
                                <<"U+00AB">>, <<"*">>), <<"U+00BB">>, <<>>)),
                        <<"U+2014">>, <<"-">>), <<"|">>, <<" ">>))),
                <<"0", "U+0411", "U+041B">>, <<CyrO, "U+0411", "U+041B">>),
                <<"0", "U+041D", ":">>, <<"U+0424", "U+041D", ":">>)),
        1)

\* the line break at position j of s ends before this position
BreakEnd(s, j) == IF s[j] = "\r" /\ At(s, j + 1) = "\n" THEN j + 2 ELSE j + 1

\* str.splitlines() from position i on: "\r\n" is one break, and there is
\* no empty last line
RECURSIVE splitlinesFrom(_, _)
splitlinesFrom(s, i) ==
    LET B == {j \in i..Len(s) : s[j] \in LineBreaks}
    IN  IF i > Len(s) THEN <<>>
        ELSE IF B = {} THEN <<From(s, i)>>
        ELSE Strict(MinOf(B), LAMBDA j :
                 <<SubSeq(s, i, j - 1)>> \o splitlinesFrom(s, BreakEnd(s, j)))

\* str.split("\n") for the empty text: one empty line
SplitOnNewline(s0) ==
    Strict(s0, LAMBDA s : IF s = <<>> THEN <<<<>>>> ELSE splitlinesFrom(s, 1))

splitlines(s0) == Strict(s0, LAMBDA s : splitlinesFrom(s, 1))

-----------------------------------------------------------------------------
(* _score_text (lines 212-229).  A score is negative infinity or the exact *)
(* fraction num / den; the float's rounding is not modelled.               *)

NegInf == [neginf |-> TRUE, num |-> 0, den |-> 1]

\* a slip in line 388: "score >= best_score"
ScoreGreaterOrEqual(a, b) ==
    IF a.neginf THEN b.neginf
    ELSE IF b.neginf THEN TRUE
    ELSE a.num * b.den >= b.num * a.den

\* score > best_score (line 388)
ScoreGreater(a, b) ==
    IF a.neginf THEN FALSE
    ELSE IF b.neginf THEN TRUE
    ELSE a.num * b.den > b.num * a.den

\* lines 215-229: (cyrillic / letters) * 10 + digits * 0.05
\*     + min(len / 500, 1.0) * 2 + 5 * (keywords found), over the
\* denominator 500 * letters
ScoreNonEmpty(text) ==
    LET letters == Count(text, Alpha)
        cyrillic == Count(text, Cyrillic)
        digits == Count(text, Digits)
        found == Cardinality({word \in keywords : Contains(text, word)})
        L == IF letters > 0 THEN letters ELSE 1
        rest == 25 * digits + 2 * Min(Len(text), 500) + 2500 * found
    IN  [neginf |-> FALSE,
         num |-> (IF letters > 0 THEN 5000 * cyrillic ELSE 0) + rest * L,
         den |-> 500 * L]

\* a slip in line 214: float("inf") for the empty text, here a score that
\* no text reaches
ScoreEmptyHighest(text) ==
    IF text = <<>> THEN [neginf |-> FALSE, num |-> 1000000, den |-> 1]
    ELSE ScoreNonEmpty(text)

\* lines 212-229
_score_text(text) ==
    IF text = <<>> THEN NegInf ELSE ScoreNonEmpty(text)

-----------------------------------------------------------------------------
(* parse_receipt_text (lines 345-398), one statement per action.           *)

\* the largest number of non-empty texts the engine returns in one run
MaxNonEmpty == 2

_SUPPORTED_SUFFIXES == {".jpg", ".jpeg", ".png", ".tif", ".tiff", ".bmp"}

\* the suffixes of the paths the model calls parse_receipt_text with
ImagePaths == _SUPPORTED_SUFFIXES \cup {".JPG", ".gif", ".GIF", ""}

\* str.lower() on those suffixes
lower(suffix) ==
    CASE suffix = ".JPG" -> ".jpg"
      [] suffix = ".GIF" -> ".gif"
      [] OTHER -> suffix

None == "None"
ExplicitCmd == "/opt/tesseract/bin/tesseract"
\* the values of the tesseract_cmd argument: absent, falsy, a path
CmdArgs == {None, "", ExplicitCmd}
PathCmd == "/usr/bin/tesseract"
WindowsDefaults ==
    <<"C:\\Program Files\\Tesseract-OCR\\tesseract.exe",
      "C:\\Program Files (x86)\\Tesseract-OCR\\tesseract.exe">>
YesNo == {"yes", "no"}

\* what a call has not looked at is "unknown"
UnknownEnv ==
    [is_file |-> "unknown", cmd_is_file |-> "unknown", which |-> "unknown",
     system |-> "unknown", default1 |-> "unknown", default2 |-> "unknown"]

\* the worlds _resolve_tesseract_cmd may find
ResolveEnvs ==
    [cmd_is_file : YesNo, which : {"", PathCmd}, system : {"windows", "linux"},
     default1 : YesNo, default2 : YesNo]

\* a slip in lines 19-25: the check of line 21 is missing
ValidateSuffixOnly(path, is_file) ==
    IF lower(path) \notin _SUPPORTED_SUFFIXES THEN "UnsupportedFormat" ELSE "ok"

\* a slip in line 16: ".gif" is among the supported suffixes
ValidateGifSupported(path, is_file) ==
    IF is_file # "yes" THEN "NotFound"
    ELSE IF lower(path) \notin _SUPPORTED_SUFFIXES \cup {".gif"}
    THEN "UnsupportedFormat"
    ELSE "ok"

\* lines 19-25; is_file is path.is_file()
_validate_image_path(path, is_file) ==
    IF is_file # "yes" THEN "NotFound"
    ELSE IF lower(path) \notin _SUPPORTED_SUFFIXES THEN "UnsupportedFormat"
    ELSE "ok"

\* "if explicit_cmd:" (line 29)
Truthy(explicit_cmd) == explicit_cmd \notin {None, ""}

\* a slip in lines 29-33: an explicit command that is not a file falls
\* through to the discovery on PATH
ResolveWithFallback(explicit_cmd, e) ==
    IF Truthy(explicit_cmd) /\ e.cmd_is_file = "yes"
    THEN [raised |-> FALSE, cmd |-> explicit_cmd, which_called |-> 0,
          seen |-> {"cmd_is_file"}]
    ELSE IF e.which # ""
    THEN [raised |-> FALSE, cmd |-> e.which, which_called |-> 1,
          seen |-> {"cmd_is_file", "which"}]
    ELSE [raised |-> TRUE, cmd |-> "", which_called |-> 1,
          seen |-> {"cmd_is_file", "which", "system", "default1", "default2"}]

\* lines 28-49 in the world e; seen is what of e the function looked at
_resolve_tesseract_cmd(explicit_cmd, e) ==
    IF Truthy(explicit_cmd)
    THEN [raised |-> e.cmd_is_file # "yes", cmd |-> explicit_cmd, which_called |-> 0,
          seen |-> {"cmd_is_file"}]
    ELSE IF e.which # ""
    THEN [raised |-> FALSE, cmd |-> e.which, which_called |-> 1, seen |-> {"which"}]
    ELSE IF e.system # "windows"
    THEN [raised |-> TRUE, cmd |-> "", which_called |-> 1, seen |-> {"which", "system"}]
    ELSE IF e.default1 = "yes"
    THEN [raised |-> FALSE, cmd |-> WindowsDefaults[1], which_called |-> 1,
          seen |-> {"which", "system", "default1"}]
    ELSE IF e.default2 = "yes"
    THEN [raised |-> FALSE, cmd |-> WindowsDefaults[2], which_called |-> 1,
          seen |-> {"which", "system", "default1", "default2"}]
    ELSE [raised |-> TRUE, cmd |-> "", which_called |-> 1,
          seen |-> {"which", "system", "default1", "default2"}]

\* the rotation the orientation detector reports
OsdAngles == {0, 90, 180, 270}
\* pytesseract.image_to_osd returns an angle, raises TesseractError, or
\* raises any other exception
OsdOutcomes ==
    [kind : {"rotate"}, angle : OsdAngles]
        \cup [kind : {"TesseractError", "OtherError"}, angle : {0}]

\* line 125: an image whose longer side is below this is enlarged
MinMaxDim == 1900
\* the longer side, in pixels, of the images decoded
MaxDims == {1000, 1900, 4000}

NoImage == [loaded |-> FALSE, rot |-> 0, max_dim |-> 0]

\* lines 78-98: the image turned by angle degrees
_rotate_bound(img, angle) == [img EXCEPT !.rot = (img.rot + angle + 360) % 360]

\* lines 101-110
_normalize_rotation(img, osd) ==
    IF osd.kind = "OtherError" THEN [raised |-> TRUE, image |-> img]
    ELSE IF osd.kind = "TesseractError" THEN [raised |-> FALSE, image |-> img]
    ELSE IF osd.angle # 0
    THEN [raised |-> FALSE, image |-> _rotate_bound(img, 0 - osd.angle)]
    ELSE [raised |-> FALSE, image |-> img]

\* lines 150-159
base_variants ==
    <<"contrast", "sharpened", "otsu", "adaptive", "inverted_otsu",
      "inverted_adaptive", "gray", "inverted_gray">>

\* lines 122-128: the gray image, enlarged so that its longer side is 1900
resize(img) ==
    IF img.max_dim < MinMaxDim THEN [img EXCEPT !.max_dim = MinMaxDim] ELSE img

\* _generate_candidates without the last entry of base_variants
GenerateWithoutInvertedGray(img) ==
    [k \in 1..(Len(base_variants) - 1) |->
        [variant |-> base_variants[k], of |-> resize(img)]]

\* lines 119-174: each variant is a preprocessing of the gray image
_generate_candidates(img) ==
    [k \in 1..Len(base_variants) |->
        [variant |-> base_variants[k], of |-> resize(img)]]

\* lines 372-379
configs ==
    <<[lang |-> "primary_lang", config |-> "--oem 1 --psm 6 -c preserve_interword_spaces=1 --dpi 300"],
      [lang |-> "primary_lang", config |-> "--oem 3 --psm 4 -c preserve_interword_spaces=1 --dpi 300"],
      [lang |-> "rus", config |-> "--oem 1 --psm 6 --dpi 300 -c tessedit_char_whitelist"]>>

\* the (variant, config) pairs in the order of the nested loops
Enumeration ==
    [k \in 1..(Len(base_variants) * Len(configs)) |->
        <<((k - 1) \div Len(configs)) + 1, ((k - 1) % Len(configs)) + 1>>]

\* the texts the engine returns in the runs that select among hypotheses
Receipt ==
    <<CyrO, CyrO, CyrO, "\n", "\n", "=", "=", "=", "\r", "\n", " ", "7", " ">>
Texts == {<<>>, <<"7">>, <<"8">>, Receipt}
\* the engine reads nothing (a blank image)
BlankTexts == {<<>>}

NonEmptyCount(h) == Cardinality({k \in 1..Len(h) : h[k] # <<>>})

Idle ==
    /\ pc = "idle"
    /\ image_path = "" /\ tesseract_cmd_arg = None /\ preserve_empty_lines = FALSE
    /\ env = UnknownEnv /\ cmd_at_entry = tesseract_cmd /\ error = "none"
    /\ image = NoImage /\ normalized_image = NoImage /\ candidates = <<>>
    /\ vi = 1 /\ ci = 1 /\ best_text = <<>> /\ best_score = NegInf
    /\ result = <<>> /\ calls = <<>> /\ hyps = <<>>
    /\ resolve_calls = 0 /\ which_calls = 0 /\ osd_calls = 0

\* a line that is not made of a price, a quantity and a total
NoParts == [price |-> <<>>, sep1 |-> <<>>, qty |-> <<>>, sep2 |-> <<>>, total |-> <<>>]

LineOff ==
    lpc = "off" /\ parts = NoParts /\ line = <<>> /\ once = <<>> /\ twice = <<>>

\* the users of the bot (Telegram ids)
Users == {1, 2}

\* a dict without entries
EmptyDict == <<>>

\* resolve_period_for_message has not been called
NotAsked == [user_id |-> 0, detected |-> <<None, None>>, today |-> <<0, 0, 0>>]

\* the ContextManager is not followed
CtxOff ==
    /\ _contexts = EmptyDict /\ _last_cheque = EmptyDict
    /\ _last_query = EmptyDict /\ _pending_cheques = EmptyDict
    /\ last_op = [u \in Users |-> [op |-> "none", params |-> EmptyDict]]
    /\ rpc = "off" /\ asked = NotAsked /\ resolved = <<None, None>>

\* no record list is aggregated
AggOff ==
    /\ apc = "off" /\ records = <<>> /\ category1_value = <<>>
    /\ normalize = EmptyDict /\ rows = <<>>

NormOff == npc = "off" /\ norm_arg = <<>> /\ normalized = <<>>

\* the cheque callbacks are not followed
BotOff ==
    /\ purchases = <<>> /\ files = {} /\ handlers = <<>>
    /\ drafts = 0 /\ started = 0

NoCall == [op |-> "none", user_id |-> 0]

SessOff ==
    /\ added = <<>> /\ called = NoCall /\ op_count = 0

\* a file system in which the image files exist, ExplicitCmd is a file and
\* PATH holds PathCmd
ConcEnv ==
    [UnknownEnv EXCEPT !.is_file = "yes", !.cmd_is_file = "yes",
                       !.which = PathCmd]

\* the threads of the process
Threads == {1, 2}

\* no call runs in a thread
ConcOff ==
    /\ cpc = [t \in Threads |-> "off"]
    /\ carg = [t \in Threads |-> None]
    /\ cresolved = [t \in Threads |-> ""]
    /\ cn = [t \in Threads |-> 0]
    /\ cused = [t \in Threads |-> {}]

Init ==
    /\ tesseract_cmd = "tesseract"
    /\ Idle
    /\ LineOff
    /\ ConcOff
    /\ runs = <<>>
    /\ CtxOff
    /\ AggOff
    /\ SessOff
    /\ BotOff
    /\ NormOff

\* the call raises err
Raise(err) == pc' = "raised" /\ error' = err

\* a caller calls parse_receipt_text(image_path, tesseract_cmd=..., ...)
Call ==
    /\ pc = "idle"
    /\ \E path \in ImagePaths, cmd \in CmdArgs, keep \in BOOLEAN :
          /\ image_path' = path
          /\ tesseract_cmd_arg' = cmd
          /\ preserve_empty_lines' = keep
    /\ pc' = "validate"
    /\ UNCHANGED <<env, tesseract_cmd, cmd_at_entry, error, image, normalized_image,
                   candidates, vi, ci, best_text, best_score, result, calls, hyps,
                   resolve_calls, which_calls, osd_calls>>
    /\ UNCHANGED outside_pipeline

\* line 352
ValidateImagePath ==
    /\ pc = "validate"
    /\ \E is_file \in YesNo :
          LET outcome == _validate_image_path(image_path, is_file)
          IN  /\ env' = [env EXCEPT !.is_file = is_file]
              /\ IF outcome = "ok"
                 THEN pc' = "resolve" /\ error' = error
                 ELSE Raise(outcome)
    /\ UNCHANGED <<image_path, tesseract_cmd_arg, preserve_empty_lines,
                   tesseract_cmd, cmd_at_entry, image, normalized_image,
                   candidates, vi, ci, best_text, best_score, result, calls, hyps,
                   resolve_calls, which_calls, osd_calls>>
    /\ UNCHANGED outside_pipeline

\* line 353 writing the process-wide command only when the caller names one
ResolveWritesExplicitOnly ==
    /\ pc = "resolve"
    /\ \E e \in ResolveEnvs :
          LET r == _resolve_tesseract_cmd(tesseract_cmd_arg, e)
          IN  /\ env' = [f \in DOMAIN env |->
                            IF f \in r.seen THEN e[f] ELSE env[f]]
              /\ which_calls' = which_calls + r.which_called
              /\ IF r.raised
                 THEN Raise("EngineUnavailable") /\ tesseract_cmd' = tesseract_cmd
                 ELSE /\ pc' = "imread" /\ error' = error
                      /\ tesseract_cmd' = IF Truthy(tesseract_cmd_arg)
                                          THEN r.cmd ELSE tesseract_cmd
    /\ resolve_calls' = resolve_calls + 1
    /\ UNCHANGED <<image_path, tesseract_cmd_arg, preserve_empty_lines,
                   cmd_at_entry, image, normalized_image,
                   candidates, vi, ci, best_text, best_score, result, calls, hyps,
                   osd_calls>>
    /\ UNCHANGED outside_pipeline

\* line 353
ResolveTesseractCmd ==
    /\ pc = "resolve"
    /\ \E e \in ResolveEnvs :
          LET r == _resolve_tesseract_cmd(tesseract_cmd_arg, e)
          IN  /\ env' = [f \in DOMAIN env |->
                            IF f \in r.seen THEN e[f] ELSE env[f]]
              /\ which_calls' = which_calls + r.which_called
              /\ IF r.raised
                 THEN Raise("EngineUnavailable") /\ tesseract_cmd' = tesseract_cmd
                 ELSE pc' = "imread" /\ error' = error /\ tesseract_cmd' = r.cmd
    /\ resolve_calls' = resolve_calls + 1
    /\ UNCHANGED <<image_path, tesseract_cmd_arg, preserve_empty_lines,
                   cmd_at_entry, image, normalized_image,
                   candidates, vi, ci, best_text, best_score, result, calls, hyps,
                   osd_calls>>
    /\ UNCHANGED outside_pipeline

\* lines 355-357: cv2.imread decodes the file or returns None
Imread ==
    /\ pc = "imread"
    /\ \E decoded \in BOOLEAN, dim \in MaxDims :
          IF decoded
          THEN pc' = "normalize_rotation" /\ error' = error
                  /\ image' = [loaded |-> TRUE, rot |-> 0, max_dim |-> dim]
          ELSE Raise("RuntimeError") /\ image' = image
    /\ UNCHANGED <<image_path, tesseract_cmd_arg, preserve_empty_lines, env,
                   tesseract_cmd, cmd_at_entry, normalized_image,
                   candidates, vi, ci, best_text, best_score, result, calls, hyps,
                   resolve_calls, which_calls, osd_calls>>
    /\ UNCHANGED outside_pipeline

\* line 359
NormalizeRotation ==
    /\ pc = "normalize_rotation"
    /\ \E osd \in OsdOutcomes :
          LET r == _normalize_rotation(image, osd)
          IN  IF r.raised
              THEN Raise(osd.kind) /\ normalized_image' = normalized_image
              ELSE pc' = "generate_candidates" /\ error' = error
                      /\ normalized_image' = r.image
    /\ osd_calls' = osd_calls + 1
    /\ UNCHANGED <<image_path, tesseract_cmd_arg, preserve_empty_lines, env,
                   tesseract_cmd, cmd_at_entry, image,
                   candidates, vi, ci, best_text, best_score, result, calls, hyps,
                   resolve_calls, which_calls>>
    /\ UNCHANGED outside_pipeline

\* lines 360-382
GenerateCandidates ==
    /\ pc = "generate_candidates"
    /\ candidates' = _generate_candidates(normalized_image)
    /\ best_text' = <<>>
    /\ best_score' = NegInf
    /\ vi' = 1 /\ ci' = 1
    /\ pc' = "recognize"
    /\ UNCHANGED <<image_path, tesseract_cmd_arg, preserve_empty_lines, env,
                   tesseract_cmd, cmd_at_entry, error, image, normalized_image,
                   result, calls, hyps, resolve_calls, which_calls, osd_calls>>
    /\ UNCHANGED outside_pipeline

\* lines 388-390 for the text the engine returned
Select(raw_text) ==
    LET score == _score_text(raw_text)
    IN  IF ScoreGreater(score, best_score)
        THEN best_score' = score /\ best_text' = raw_text
        ELSE best_score' = best_score /\ best_text' = best_text

\* lines 384-385: the loops move on
Advance ==
    IF ci < Len(configs) THEN vi' = vi /\ ci' = ci + 1 /\ pc' = pc
    ELSE IF vi < Len(candidates) THEN vi' = vi + 1 /\ ci' = 1 /\ pc' = pc
    ELSE vi' = vi /\ ci' = ci /\ pc' = "postprocess"

\* lines 384-390, one turn of the inner loop in which _image_to_string
\* returns a text of T
Recognize(T) ==
    /\ pc = "recognize"
    /\ calls' = Append(calls, <<vi, ci>>)
    /\ \E raw_text \in T :
          /\ raw_text # <<>> => NonEmptyCount(hyps) < MaxNonEmpty
          /\ hyps' = Append(hyps, raw_text)
          /\ Select(raw_text)
    /\ Advance
    /\ UNCHANGED <<image_path, tesseract_cmd_arg, preserve_empty_lines, env,
                   tesseract_cmd, cmd_at_entry, error, image, normalized_image,
                   candidates, result, resolve_calls, which_calls, osd_calls>>
    /\ UNCHANGED outside_pipeline

\* lines 384-387, a turn of the inner loop in which pytesseract raises:
\* nothing catches the error and it leaves parse_receipt_text
RecognizeRaises ==
    /\ pc = "recognize"
    /\ calls' = Append(calls, <<vi, ci>>)
    /\ Raise("TesseractError")
    /\ UNCHANGED <<image_path, tesseract_cmd_arg, preserve_empty_lines, env,
                   tesseract_cmd, cmd_at_entry, image, normalized_image,
                   candidates, vi, ci, best_text, best_score, result, hyps,
                   resolve_calls, which_calls, osd_calls>>
    /\ UNCHANGED outside_pipeline

\* str.rstrip()
rstrip(s0) ==
    Strict(s0, LAMBDA s :
        LET K == {j \in 1..Len(s) : s[j] \notin Whitespace}
        IN  IF K = {} THEN <<>> ELSE SubSeq(s, 1, MaxOf(K)))

\* lines 394-398 with no line left out
ReturnKeepsEmpty(lines0, keep_empty) ==
    Strict(lines0, LAMBDA lines :
        Strict([k \in 1..Len(lines) |-> _postprocess_line(lines[k])],
               LAMBDA processed_lines :
            IF keep_empty
            THEN [k \in 1..Len(processed_lines) |-> rstrip(processed_lines[k])]
            ELSE processed_lines))

\* lines 394-398 with the lines as recognized when they are all kept
ReturnRawWhenPreserving(lines0, keep_empty) ==
    Strict(lines0, LAMBDA lines :
        Strict([k \in 1..Len(lines) |-> _postprocess_line(lines[k])],
               LAMBDA processed_lines :
            IF keep_empty
            THEN [k \in 1..Len(lines) |-> rstrip(lines[k])]
            ELSE SelectSeq(processed_lines, LAMBDA l : l # <<>>)))

\* lines 394-398
Return(lines0, keep_empty) ==
    Strict(lines0, LAMBDA lines :
        Strict([k \in 1..Len(lines) |-> _postprocess_line(lines[k])],
               LAMBDA processed_lines :
            IF keep_empty
            THEN [k \in 1..Len(processed_lines) |-> rstrip(processed_lines[k])]
            ELSE SelectSeq(processed_lines, LAMBDA l : l # <<>>)))

\* lines 392-398
Lines(text, keep_empty) ==
    Return(splitlines(_normalize_cyrillic(text)), keep_empty)

PostprocessAndReturn ==
    /\ pc = "postprocess"
    /\ result' = Lines(best_text, preserve_empty_lines)
    /\ pc' = "returned"
    /\ UNCHANGED <<image_path, tesseract_cmd_arg, preserve_empty_lines, env,
                   tesseract_cmd, cmd_at_entry, error, image, normalized_image,
                   candidates, vi, ci, best_text, best_score, calls, hyps,
                   resolve_calls, which_calls, osd_calls>>
    /\ UNCHANGED outside_pipeline

\* the call is over; the process goes on and keeps tesseract_cmd
EndCall ==
    /\ pc \in {"returned", "raised"}
    /\ tesseract_cmd' = tesseract_cmd
    /\ pc' = "idle"
    /\ image_path' = "" /\ tesseract_cmd_arg' = None /\ preserve_empty_lines' = FALSE
    /\ env' = UnknownEnv /\ cmd_at_entry' = tesseract_cmd /\ error' = "none"
    /\ image' = NoImage /\ normalized_image' = NoImage /\ candidates' = <<>>
    /\ vi' = 1 /\ ci' = 1 /\ best_text' = <<>> /\ best_score' = NegInf
    /\ result' = <<>> /\ calls' = <<>> /\ hyps' = <<>>
    /\ resolve_calls' = 0 /\ which_calls' = 0 /\ osd_calls' = 0

Finish ==
    /\ EndCall
    /\ UNCHANGED outside_pipeline

Next ==
    \/ Call
    \/ ValidateImagePath
    \/ ResolveTesseractCmd
    \/ Imread
    \/ NormalizeRotation
    \/ GenerateCandidates
    \/ Recognize(BlankTexts)
    \/ RecognizeRaises
    \/ PostprocessAndReturn
    \/ Finish

Spec == Init /\ [][Next]_vars

-----------------------------------------------------------------------------
(* The selection among the hypotheses (lines 381-398): the call has passed *)
(* lines 352-382 and the engine returns a text of Texts for every          *)
(* (variant, config) pair.                                                 *)

InitSelect ==
    /\ pc = "recognize"
    /\ image_path = ".jpg" /\ tesseract_cmd_arg = None
    /\ preserve_empty_lines \in BOOLEAN
    /\ env = [UnknownEnv EXCEPT !.is_file = "yes", !.which = PathCmd]
    /\ tesseract_cmd = PathCmd /\ cmd_at_entry = "tesseract" /\ error = "none"
    /\ image = [loaded |-> TRUE, rot |-> 0, max_dim |-> MinMaxDim]
    /\ normalized_image = [loaded |-> TRUE, rot |-> 0, max_dim |-> MinMaxDim]
    /\ candidates = _generate_candidates(normalized_image)
    /\ vi = 1 /\ ci = 1 /\ best_text = <<>> /\ best_score = NegInf
    /\ result = <<>> /\ calls = <<>> /\ hyps = <<>>
    /\ resolve_calls = 1 /\ which_calls = 1 /\ osd_calls = 1
    /\ LineOff
    /\ ConcOff
    /\ runs = <<>>
    /\ CtxOff
    /\ AggOff
    /\ SessOff
    /\ BotOff
    /\ NormOff

NextSelect ==
    \/ Recognize(Texts)
    \/ PostprocessAndReturn

SpecSelect == InitSelect /\ [][NextSelect]_vars

-----------------------------------------------------------------------------
(* Calls of extract_receipt_text (lines 401-417) one after the other in a  *)
(* world that does not change: the files, PATH, the decoder, the           *)
(* orientation detector and the engine are functions of their arguments.   *)

\* how many calls are followed
MaxRuns == 3

\* two image files
RunPaths == {".jpg", ".png"}

\* cv2.imread of each file
FileImage(path) ==
    [loaded |-> TRUE, rot |-> 0, max_dim |-> IF path = ".jpg" THEN 1000 ELSE 4000]

\* pytesseract.image_to_osd of each image
OsdOf(img) ==
    IF img.max_dim < MinMaxDim THEN [kind |-> "rotate", angle |-> 90]
    ELSE [kind |-> "TesseractError", angle |-> 0]

\* the text the executable named cmd reads in a variant; "tesseract" is
\* looked up on PATH and is the executable PathCmd
EngineText(cmd, variant, c) ==
    IF variant.variant # "otsu" \/ c # 1 THEN <<>>
    ELSE IF variant.of.rot # 0 THEN
        IF cmd = ExplicitCmd THEN <<"7", "\n", "\n", "8">> ELSE <<"8", "\n", "7">>
    ELSE IF cmd = ExplicitCmd THEN <<"7">> ELSE <<"8">>

\* "\n".join(lines)
join(lines) ==
    IF lines = <<>> THEN <<>>
    ELSE LET RECURSIVE J(_)
             J(k) == IF k = 1 THEN lines[1] ELSE J(k - 1) \o <<"\n">> \o lines[k]
         IN  J(Len(lines))

\* lines 412-417: what extract_receipt_text returns for the list of
\* parse_receipt_text
extract_receipt_text(lines) == join(lines)

InitRuns ==
    /\ tesseract_cmd = "tesseract"
    /\ Idle
    /\ LineOff
    /\ ConcOff
    /\ runs = <<>>
    /\ CtxOff
    /\ AggOff
    /\ SessOff
    /\ BotOff
    /\ NormOff

\* lines 401-416: extract_receipt_text calls parse_receipt_text with
\* preserve_empty_lines=False
RunCall ==
    /\ Len(runs) < MaxRuns
    /\ Call
    /\ image_path' \in RunPaths
    /\ preserve_empty_lines' = FALSE

\* line 352, the file exists
RunValidateImagePath ==
    /\ ValidateImagePath
    /\ env'.is_file = ConcEnv.is_file

\* line 353, the file system and PATH being ConcEnv
RunResolveTesseractCmd ==
    /\ ResolveTesseractCmd
    /\ \A f \in DOMAIN env : env'[f] \in {UnknownEnv[f], ConcEnv[f]}

\* lines 355-357
RunImread ==
    /\ Imread
    /\ image' = FileImage(image_path)

\* line 359
RunNormalizeRotation ==
    /\ NormalizeRotation
    /\ pc' # "raised"
    /\ normalized_image' = _normalize_rotation(image, OsdOf(image)).image

\* lines 384-390, the engine being EngineText
RunRecognize ==
    /\ pc = "recognize"
    /\ Recognize({EngineText(tesseract_cmd, candidates[vi], ci)})

\* line 417: the text is returned to the caller
ExtractReturns ==
    /\ pc = "returned"
    /\ runs' = Append(runs, [path |-> image_path, cmd |-> tesseract_cmd_arg,
                             text |-> extract_receipt_text(result)])
    /\ EndCall
    /\ UNCHANGED <<line_vars, conc_vars, ctx_vars, agg_vars, norm_vars, bot_vars, sess_vars>>

NextRuns ==
    \/ RunCall
    \/ RunValidateImagePath
    \/ RunResolveTesseractCmd
    \/ RunImread
    \/ RunNormalizeRotation
    \/ GenerateCandidates
    \/ RunRecognize
    \/ PostprocessAndReturn
    \/ ExtractReturns

SpecRuns == InitRuns /\ [][NextRuns]_vars

-----------------------------------------------------------------------------
(* The cache of the last query (src/aiAssistant/core/context_manager.py)   *)
(* and resolve_period_for_message (src/aiAssistant/telegram/bot.py, lines  *)
(* 155-168).  A dict is a function whose domain is the set of its keys; a  *)
(* date is a string "dd.mm.yyyy".                                          *)

\* d[k] = v
Put(d, k, v) == [x \in DOMAIN d \cup {k} |-> IF x = k THEN v ELSE d[x]]
\* del d[k], d.pop(k, None)
Del(d, k) == [x \in DOMAIN d \ {k} |-> d[x]]
\* d.get(k)
Get(d, k) == IF k \in DOMAIN d THEN d[k] ELSE None

\* the values stored under start_date and end_date: tool arguments that are
\* absent or empty, or dates
DateValues == {None, "", "05.11.2025", "07.11.2025"}
\* the params of a query
ParamsOver(keys) == [keys -> DateValues]
Params ==
    ParamsOver({}) \cup ParamsOver({"start_date"})
        \cup ParamsOver({"start_date", "end_date"})

\* what extract_period_from_message (lines 121-152) finds in the message:
\* both dates or neither
Detected == {<<None, None>>, <<"01.10.2025", "31.10.2025">>,
             <<"07.11.2025", "07.11.2025">>}

\* datetime.now(): day, month, year
Todays == {<<4, 11, 2026>>, <<1, 12, 2026>>}

\* "%02d"
Pad2(n) == DigitSeq[(((n \div 10) % 10)) + 1] \o DigitSeq[(n % 10) + 1]
\* strftime("%d.%m.%Y")
strftime(date) ==
    Pad2(date[1]) \o "." \o Pad2(date[2]) \o "."
        \o Pad2(date[3] \div 100) \o Pad2(date[3] % 100)

\* date_helpers.py lines 20-24
get_current_month(today) ==
    <<strftime(<<1, today[2], today[3]>>), strftime(today)>>

\* context_manager.py lines 44-60
set_last_query(user_id, query_type, params, query_result, username) ==
    Put(_last_query, user_id,
        [type |-> query_type, params |-> params, result |-> query_result,
         username |-> username])

\* bot.py lines 155-168 with the cache consulted before the message
ResolveCachedFirst(user_id, detected, today) ==
    IF /\ user_id \in DOMAIN _last_query
       /\ Truthy(Get(_last_query[user_id].params, "start_date"))
       /\ Truthy(Get(_last_query[user_id].params, "end_date"))
    THEN <<Get(_last_query[user_id].params, "start_date"),
           Get(_last_query[user_id].params, "end_date")>>
    ELSE IF Truthy(detected[1]) /\ Truthy(detected[2]) THEN detected
    ELSE get_current_month(today)

\* bot.py lines 155-168; detected is what extract_period_from_message
\* returned for the message
resolve_period_for_message(user_id, detected, today) ==
    IF Truthy(detected[1]) /\ Truthy(detected[2]) THEN detected
    ELSE IF /\ user_id \in DOMAIN _last_query
            /\ Truthy(Get(_last_query[user_id].params, "start_date"))
            /\ Truthy(Get(_last_query[user_id].params, "end_date"))
    THEN <<Get(_last_query[user_id].params, "start_date"),
           Get(_last_query[user_id].params, "end_date")>>
    ELSE get_current_month(today)

InitCtx ==
    /\ tesseract_cmd = "tesseract"
    /\ Idle
    /\ LineOff
    /\ ConcOff
    /\ runs = <<>>
    /\ AggOff
    /\ SessOff
    /\ BotOff
    /\ NormOff
    /\ _contexts = EmptyDict /\ _last_cheque = EmptyDict
    /\ _last_query = EmptyDict /\ _pending_cheques = EmptyDict
    /\ last_op = [u \in Users |-> [op |-> "none", params |-> EmptyDict]]
    /\ rpc = "idle" /\ asked = NotAsked /\ resolved = <<None, None>>

\* context_manager.set_last_query(user_id, ...)
SetLastQuery ==
    /\ rpc = "idle"
    /\ \E user_id \in Users, params \in Params :
          /\ _last_query' = set_last_query(user_id, "fetch_by_period", params,
                                           <<>>, "username")
          /\ last_op' = [last_op EXCEPT
                            ![user_id] = [op |-> "set_last_query", params |-> params]]
    /\ UNCHANGED <<_contexts, _last_cheque, _pending_cheques, rpc, asked, resolved>>
    /\ UNCHANGED outside_ctx

\* context_manager.clear_last_query(user_id), lines 74-81
ClearLastQuery ==
    /\ rpc = "idle"
    /\ \E user_id \in Users :
          /\ _last_query' = Del(_last_query, user_id)
          /\ last_op' = [last_op EXCEPT
                            ![user_id] = [op |-> "clear_last_query", params |-> EmptyDict]]
    /\ UNCHANGED <<_contexts, _last_cheque, _pending_cheques, rpc, asked, resolved>>
    /\ UNCHANGED outside_ctx

\* context_manager.clear_context(user_id), lines 26-34
ClearContext ==
    /\ rpc = "idle"
    /\ \E user_id \in Users :
          /\ _contexts' = Del(_contexts, user_id)
          /\ _last_cheque' = Del(_last_cheque, user_id)
          /\ _last_query' = Del(_last_query, user_id)
          /\ _pending_cheques' = Del(_pending_cheques, user_id)
          /\ last_op' = [last_op EXCEPT
                            ![user_id] = [op |-> "clear_context", params |-> EmptyDict]]
    /\ UNCHANGED <<rpc, asked, resolved>>
    /\ UNCHANGED outside_ctx

\* resolve_period_for_message(user_id, user_message) is called and returns
ResolvePeriod ==
    /\ rpc = "idle"
    /\ \E user_id \in Users, detected \in Detected, today \in Todays :
          /\ asked' = [user_id |-> user_id, detected |-> detected, today |-> today]
          /\ resolved' = resolve_period_for_message(user_id, detected, today)
    /\ rpc' = "resolved"
    /\ UNCHANGED <<_contexts, _last_cheque, _last_query, _pending_cheques, last_op>>
    /\ UNCHANGED outside_ctx

\* the caller has used the period
ResolveDone ==
    /\ rpc = "resolved"
    /\ rpc' = "idle" /\ asked' = NotAsked /\ resolved' = <<None, None>>
    /\ UNCHANGED <<_contexts, _last_cheque, _last_query, _pending_cheques, last_op>>
    /\ UNCHANGED outside_ctx

NextCtx ==
    \/ SetLastQuery
    \/ ClearLastQuery
    \/ ClearContext
    \/ ResolvePeriod
    \/ ResolveDone

SpecCtx == InitCtx /\ [][NextCtx]_vars

-----------------------------------------------------------------------------
(* refresh_last_query (src/aiAssistant/telegram/bot.py, lines 506-614)     *)
(* called on a cache that the tool handlers of bot.py have filled.         *)

\* bot.py lines 543-549
field_map ==
    [get_grouped_by_category1 |-> "category1",
     get_grouped_by_category2 |-> "category2",
     get_grouped_by_category3 |-> "category3",
     get_grouped_by_organization |-> "organization",
     get_grouped_by_description |-> "description"]

\* the query types the handlers cache (bot.py lines 691-822, 1041-1221,
\* 2488-2552)
QueryTypes ==
    {"get_grouped_by_category1", "get_grouped_by_category2", "fetch_by_period",
     "summary_period", "get_grouped_stats_filtered"}

\* query_type.startswith("get_grouped_by_"), for the types of QueryTypes
IsGroupedBy(query_type) == query_type \in DOMAIN field_map

\* the filters of a filtered query (bot.py line 2549), kept as one value
Filters == {"category1=food"}

\* the params the handlers cache with a query of the type
CachedParams(query_type) ==
    IF IsGroupedBy(query_type)
    THEN [start_date : DateValues, end_date : DateValues,
          field : {field_map[query_type]}]
    ELSE IF query_type = "get_grouped_stats_filtered"
    THEN [start_date : DateValues, end_date : DateValues,
          field : {"category2"}, filters : Filters]
    ELSE [start_date : DateValues, end_date : DateValues]

\* what the database returns for a query
DbResults == {"no rows", "rows"}

\* the entries of the cache
CachedQueries ==
    UNION {[type : {t}, params : CachedParams(t), result : {"stale rows"},
            username : {"alice"}] : t \in QueryTypes}

\* lines 521-531 and 601-611: the default query
DefaultQuery(user_id, today, query_result, username) ==
    set_last_query(user_id, "get_grouped_by_category1",
        [start_date |-> get_current_month(today)[1],
         end_date |-> get_current_month(today)[2], field |-> "category1"],
        query_result, username)

\* lines 551-555, 568-572, 585-589
PeriodOf(params, today) ==
    IF ~Truthy(Get(params, "start_date")) \/ ~Truthy(Get(params, "end_date"))
    THEN get_current_month(today)
    ELSE <<Get(params, "start_date"), Get(params, "end_date")>>

\* lines 506-614: the cache after the call; query_result is what the database
\* returns for the query made
refresh_last_query(user_id, username, today, query_result) ==
    IF user_id \notin DOMAIN _last_query
    THEN DefaultQuery(user_id, today, query_result, username)
    ELSE LET query_type == _last_query[user_id].type
             params == _last_query[user_id].params
             query_username == _last_query[user_id].username
             period == PeriodOf(params, today)
         IN  IF IsGroupedBy(query_type)
             THEN set_last_query(user_id, query_type,
                      [start_date |-> period[1], end_date |-> period[2],
                       field |-> field_map[query_type]],
                      query_result, query_username)
             ELSE IF query_type \in {"fetch_by_period", "summary_period"}
             THEN set_last_query(user_id, query_type,
                      [start_date |-> period[1], end_date |-> period[2]],
                      query_result, query_username)
             ELSE DefaultQuery(user_id, today, query_result, query_username)

\* the caches the handlers can leave
Caches ==
    UNION {[S -> CachedQueries] : S \in SUBSET Users}

InitRefresh ==
    /\ tesseract_cmd = "tesseract"
    /\ Idle
    /\ LineOff
    /\ ConcOff
    /\ runs = <<>>
    /\ AggOff
    /\ SessOff
    /\ BotOff
    /\ NormOff
    /\ _contexts = EmptyDict /\ _last_cheque = EmptyDict
    /\ _pending_cheques = EmptyDict
    /\ _last_query \in Caches
    /\ last_op = [u \in Users |-> [op |-> "none", params |-> EmptyDict]]
    /\ rpc = "idle" /\ asked = NotAsked /\ resolved = <<None, None>>

\* refresh_last_query(user_id, username, context_manager) is called;
\* last_op keeps the entry of the user as it was before the call
RefreshLastQuery ==
    /\ rpc = "idle"
    /\ \E user_id \in Users, today \in Todays, query_result \in DbResults :
          /\ _last_query' = refresh_last_query(user_id, "alice", today, query_result)
          /\ last_op' = [last_op EXCEPT
                            ![user_id] = [op |-> "refresh_last_query",
                                          params |-> IF user_id \in DOMAIN _last_query
                                                     THEN _last_query[user_id]
                                                     ELSE EmptyDict]]
    /\ UNCHANGED <<_contexts, _last_cheque, _pending_cheques, rpc, asked, resolved>>
    /\ UNCHANGED outside_ctx

NextRefresh == RefreshLastQuery

SpecRefresh == InitRefresh /\ [][NextRefresh]_vars

-----------------------------------------------------------------------------
(* The cheque callbacks of src/aiAssistant/telegram/bot.py and the         *)
(* purchases table of src/db/db_manager.py.  The dispatcher runs the       *)
(* handlers as tasks of one event loop: a handler runs alone up to its     *)
(* next await, and the calls it makes through asyncio.to_thread are one    *)
(* step each.  A price is a number of hundredths; the username of a user   *)
(* is the user id; a file path is the number of the draft it was           *)
(* uploaded for.                                                           *)

\* the drafts that are made
MaxDrafts == 2
\* the handlers that are started
MaxCalls == 2

\* the handlers that can run at a time
Slots == {1, 2}

\* file_path of a cheque entered by hand (bot.py line 1691)
NoFile == 0

\* the items the parser returns for a photo: one item, with or without a date
\* and an organization
ItemKinds ==
    {[date |-> "05.11.2025", organization |-> "LENTA", price |-> 10000],
     [date |-> None, organization |-> "LENTA", price |-> 10000],
     [date |-> "05.11.2025", organization |-> "", price |-> 10000]}

ParsedItems == {<<k>> : k \in ItemKinds}

\* the first item of a cheque entered by hand: the date and the organization
\* of new_cheque_state, which are "" until the user gives them (bot.py lines
\* 1695-1698 and 1717-1720)
ManualItems ==
    {[date |-> d, organization |-> o, price |-> 10000] :
        d \in {"", "05.11.2025"}, o \in {"", "LENTA"}}

\* no handler runs in the slot
IdleHandler ==
    [kind |-> "idle", user_id |-> 0, pc |-> "idle", pending |-> EmptyDict,
     duplicate_at_start |-> FALSE]

\* sum(float(item.get("price", 0) or 0) for item in items), bot.py line 1509
RECURSIVE total_sum(_)
total_sum(items) ==
    IF items = <<>> THEN 0 ELSE Head(items).price + total_sum(Tail(items))

\* db_manager.py lines 140-145
get_next_cheque_id ==
    IF purchases = <<>> THEN 1
    ELSE MaxOf({purchases[k].chequeid : k \in 1..Len(purchases)}) + 1

\* the rows of the table: the n-th item of the k-th insert
TableRows ==
    UNION {{<<k, n>> : n \in 1..Len(purchases[k].items)} :
           k \in 1..Len(purchases)}

\* the rows of cheque c that WHERE date = ? AND username = ? AND
\* organization = ? selects; a NULL equals nothing
MatchingPrices(c, date, username, organization) ==
    {r \in TableRows :
        /\ purchases[r[1]].chequeid = c
        /\ purchases[r[1]].username = username
        /\ date # None
        /\ purchases[r[1]].items[r[2]].date = date
        /\ purchases[r[1]].items[r[2]].organization = organization}

RECURSIVE SumRows(_)
SumRows(R) ==
    IF R = {} THEN 0
    ELSE LET r == CHOOSE r \in R : TRUE
         IN  purchases[r[1]].items[r[2]].price + SumRows(R \ {r})

\* db_manager.py lines 219-231: GROUP BY chequeid HAVING ABS(SUM(price) - ?)
\* < 0.01
check_duplicate_cheque(date, username, organization, total) ==
    \E k \in 1..Len(purchases) :
        LET R == MatchingPrices(purchases[k].chequeid, date, username, organization)
        IN  R # {} /\ SumRows(R) = total

\* db_manager.py lines 178-207: the table after bulk_insert_purchases(items)
\* for the pending cheque
bulk_insert_purchases(pending) ==
    Append(purchases,
           [chequeid |-> pending.chequeid, username |-> pending.username,
            items |-> pending.items, draft |-> pending.draft])

\* bot.py lines 423-434: the files after discard_pending_cheque(user_id)
FilesAfterDiscard(user_id) ==
    IF user_id \in DOMAIN _pending_cheques
    THEN files \ {_pending_cheques[user_id].file_path}
    ELSE files

\* bot.py lines 437-484: the pending cheques after prepare_pending_cheque
prepare_pending_cheque(user_id, username, local_path, items) ==
    Put(_pending_cheques, user_id,
        [items |-> items, file_path |-> local_path, username |-> username,
         chequeid |-> get_next_cheque_id, draft |-> drafts + 1])

\* bot.py lines 465-470: the files after prepare_pending_cheque
FilesAfterPrepare(user_id, local_path) ==
    IF user_id \in DOMAIN _pending_cheques
          /\ _pending_cheques[user_id].file_path # local_path
    THEN FilesAfterDiscard(user_id)
    ELSE files

InitBot ==
    /\ tesseract_cmd = "tesseract"
    /\ Idle
    /\ LineOff
    /\ ConcOff
    /\ runs = <<>>
    /\ AggOff
    /\ SessOff
    /\ NormOff
    /\ _contexts = EmptyDict /\ _last_cheque = EmptyDict
    /\ _last_query = EmptyDict /\ _pending_cheques = EmptyDict
    /\ last_op = [u \in Users |-> [op |-> "none", params |-> EmptyDict]]
    /\ rpc = "idle" /\ asked = NotAsked /\ resolved = <<None, None>>
    /\ purchases = <<>> /\ files = {}
    /\ handlers = [h \in Slots |-> IdleHandler]
    /\ drafts = 0 /\ started = 0

\* what the cheque callbacks leave alone of the ContextManager
ctx_rest == <<_contexts, _last_query, last_op, rpc, asked, resolved>>

\* the photo handler (bot.py lines 1393 and 1471): the photo is stored, read
\* and parsed, and prepare_pending_cheque is called with its items
Photo(user_id) ==
    /\ drafts < MaxDrafts
    /\ \E items \in ParsedItems :
          _pending_cheques' =
              prepare_pending_cheque(user_id, user_id, drafts + 1, items)
    /\ files' = FilesAfterPrepare(user_id, drafts + 1) \cup {drafts + 1}
    /\ drafts' = drafts + 1
    /\ UNCHANGED <<_last_cheque, purchases, handlers, started>>
    /\ UNCHANGED <<ctx_rest, outside_bot>>

\* create_new_cheque_pending (bot.py lines 1684-1702)
CreateNewChequePending(user_id) ==
    /\ drafts < MaxDrafts
    /\ _pending_cheques' =
          Put(_pending_cheques, user_id,
              [items |-> <<>>, file_path |-> NoFile, username |-> user_id,
               chequeid |-> get_next_cheque_id, draft |-> drafts + 1])
    /\ drafts' = drafts + 1
    /\ UNCHANGED <<_last_cheque, purchases, files, handlers, started>>
    /\ UNCHANGED <<ctx_rest, outside_bot>>

\* add_item_to_pending_cheque (bot.py lines 1705-1760) for the first item of
\* a cheque entered by hand, taken in one step
AddItemToPendingCheque(user_id) ==
    /\ user_id \in DOMAIN _pending_cheques
    /\ _pending_cheques[user_id].items = <<>>
    /\ \E item \in ManualItems :
          _pending_cheques' =
              [_pending_cheques EXCEPT ![user_id].items = <<item>>]
    /\ UNCHANGED <<_last_cheque, purchases, files, handlers, drafts, started>>
    /\ UNCHANGED <<ctx_rest, outside_bot>>

\* the handler of slot h moves to pc
Goto(h, pc_) == handlers' = [handlers EXCEPT ![h].pc = pc_]

\* a handler of the kind starts in slot h for the user, having read the
\* pending cheque, and is at pc
Enter(h, kind, user_id, pc_) ==
    LET pending == IF user_id \in DOMAIN _pending_cheques
                   THEN _pending_cheques[user_id] ELSE EmptyDict
    IN  /\ handlers[h].kind = "idle"
        /\ started < MaxCalls
        /\ started' = started + 1
        /\ handlers' = [handlers EXCEPT ![h] =
              [kind |-> kind, user_id |-> user_id, pc |-> pc_,
               pending |-> pending,
               duplicate_at_start |->
                   /\ kind = "save"
                   /\ pending # EmptyDict
                   /\ pending.items # <<>>
                   /\ check_duplicate_cheque(pending.items[1].date,
                          pending.username, pending.items[1].organization,
                          total_sum(pending.items))]]

\* callback_save_cheque up to its first await (bot.py lines 1493-1511)
SaveStart(h, user_id) ==
    /\ Enter(h, "save", user_id,
             IF user_id \notin DOMAIN _pending_cheques THEN "no_pending"
             ELSE IF _pending_cheques[user_id].items = <<>> THEN "raised"
             ELSE IF Truthy(_pending_cheques[user_id].items[1].date)
                     /\ Truthy(_pending_cheques[user_id].items[1].organization)
             THEN "check" ELSE "insert")
    /\ UNCHANGED <<_pending_cheques, _last_cheque, purchases, files, drafts>>
    /\ UNCHANGED <<ctx_rest, outside_bot>>

\* lines 1512-1525: check_duplicate_cheque returns
SaveCheck(h) ==
    /\ handlers[h].kind = "save" /\ handlers[h].pc = "check"
    /\ LET pending == handlers[h].pending
       IN  Goto(h, IF check_duplicate_cheque(pending.items[1].date,
                         pending.username, pending.items[1].organization,
                         total_sum(pending.items))
                   THEN "duplicate" ELSE "insert")
    /\ UNCHANGED <<_pending_cheques, _last_cheque, purchases, files, drafts, started>>
    /\ UNCHANGED <<ctx_rest, outside_bot>>

\* lines 1519-1521: check_duplicate_cheque raises
SaveCheckRaises(h) ==
    /\ handlers[h].kind = "save" /\ handlers[h].pc = "check"
    /\ Goto(h, "insert")
    /\ UNCHANGED <<_pending_cheques, _last_cheque, purchases, files, drafts, started>>
    /\ UNCHANGED <<ctx_rest, outside_bot>>

\* lines 1527-1528: bulk_insert_purchases returns
SaveInsert(h) ==
    /\ handlers[h].kind = "save" /\ handlers[h].pc = "insert"
    /\ purchases' = bulk_insert_purchases(handlers[h].pending)
    /\ Goto(h, "inserted")
    /\ UNCHANGED <<_pending_cheques, _last_cheque, files, drafts, started>>
    /\ UNCHANGED <<ctx_rest, outside_bot>>

\* the failed insert also clears the pending cheque
SaveInsertFailsAndClears(h) ==
    /\ handlers[h].kind = "save" /\ handlers[h].pc = "insert"
    /\ Goto(h, "failed")
    /\ _pending_cheques' = Del(_pending_cheques, handlers[h].user_id)
    /\ UNCHANGED <<_last_cheque, purchases, files, drafts, started>>
    /\ UNCHANGED <<ctx_rest, outside_bot>>

\* lines 1529-1532: bulk_insert_purchases raises, nothing is committed
SaveInsertFails(h) ==
    /\ handlers[h].kind = "save" /\ handlers[h].pc = "insert"
    /\ Goto(h, "failed")
    /\ UNCHANGED <<_pending_cheques, _last_cheque, purchases, files, drafts, started>>
    /\ UNCHANGED <<ctx_rest, outside_bot>>

\* lines 1534-1535
SaveFinish(h) ==
    /\ handlers[h].kind = "save" /\ handlers[h].pc = "inserted"
    /\ _pending_cheques' = Del(_pending_cheques, handlers[h].user_id)
    /\ _last_cheque' = Put(_last_cheque, handlers[h].user_id,
                            handlers[h].pending.chequeid)
    /\ Goto(h, "saved")
    /\ UNCHANGED <<purchases, files, drafts, started>>
    /\ UNCHANGED <<ctx_rest, outside_bot>>

\* callback_delete_cheque (lines 1552-1570), which has no await before its
\* work is done
DeleteCheque(user_id) ==
    /\ user_id \in DOMAIN _pending_cheques
    /\ files' = FilesAfterDiscard(user_id)
    /\ _pending_cheques' = Del(_pending_cheques, user_id)
    /\ UNCHANGED <<_last_cheque, purchases, handlers, drafts, started>>
    /\ UNCHANGED <<ctx_rest, outside_bot>>

\* callback_retry_cheque up to its first await (lines 1575-1596)
RetryStart(h, user_id) ==
    LET missing == /\ user_id \in DOMAIN _pending_cheques
                   /\ _pending_cheques[user_id].file_path \notin files
    IN  /\ Enter(h, "retry", user_id,
                 IF user_id \notin DOMAIN _pending_cheques THEN "no_pending"
                 ELSE IF missing THEN "file_missing" ELSE "ocr")
        /\ _pending_cheques' = IF missing THEN Del(_pending_cheques, user_id)
                                ELSE _pending_cheques
        /\ UNCHANGED <<_last_cheque, purchases, files, drafts>>
        /\ UNCHANGED <<ctx_rest, outside_bot>>

\* line 1599: extract_receipt_text returns; the file is there
RetryOcr(h) ==
    /\ handlers[h].kind = "retry" /\ handlers[h].pc = "ocr"
    /\ handlers[h].pending.file_path \in files
    /\ Goto(h, "parse")
    /\ UNCHANGED <<_pending_cheques, _last_cheque, purchases, files, drafts, started>>
    /\ UNCHANGED <<ctx_rest, outside_bot>>

\* lines 1600-1603: extract_receipt_text raises
RetryOcrRaises(h) ==
    /\ handlers[h].kind = "retry" /\ handlers[h].pc = "ocr"
    /\ Goto(h, "ocr_failed")
    /\ UNCHANGED <<_pending_cheques, _last_cheque, purchases, files, drafts, started>>
    /\ UNCHANGED <<ctx_rest, outside_bot>>

\* lines 1605-1616: parse_cheque_with_gpt raises
RetryParseRaises(h) ==
    /\ handlers[h].kind = "retry" /\ handlers[h].pc = "parse"
    /\ Goto(h, "parse_failed")
    /\ UNCHANGED <<_pending_cheques, _last_cheque, purchases, files, drafts, started>>
    /\ UNCHANGED <<ctx_rest, outside_bot>>

\* lines 1618-1620: parse_cheque_with_gpt returns no items
RetryParseEmpty(h) ==
    /\ handlers[h].kind = "retry" /\ handlers[h].pc = "parse"
    /\ Goto(h, "no_items")
    /\ UNCHANGED <<_pending_cheques, _last_cheque, purchases, files, drafts, started>>
    /\ UNCHANGED <<ctx_rest, outside_bot>>

\* lines 1622-1628: parse_cheque_with_gpt returns items (it is given the
\* text and does not read the file) and prepare_pending_cheque is called
RetryPrepare(h) ==
    /\ handlers[h].kind = "retry" /\ handlers[h].pc = "parse"
    /\ drafts < MaxDrafts
    /\ \E items \in ParsedItems :
          _pending_cheques' =
              prepare_pending_cheque(handlers[h].user_id,
                  handlers[h].pending.username,
                  handlers[h].pending.file_path, items)
    /\ files' = FilesAfterPrepare(handlers[h].user_id,
                                   handlers[h].pending.file_path)
    /\ drafts' = drafts + 1
    /\ Goto(h, "updated")
    /\ UNCHANGED <<_last_cheque, purchases, started>>
    /\ UNCHANGED <<ctx_rest, outside_bot>>

\* the handler of slot h has returned or raised
HandlerEnds(h) ==
    /\ handlers[h].pc \in {"no_pending", "raised", "duplicate", "failed",
                            "saved", "file_missing", "ocr_failed",
                            "parse_failed", "no_items", "updated"}
    /\ handlers' = [handlers EXCEPT ![h] = IdleHandler]
    /\ UNCHANGED <<_pending_cheques, _last_cheque, purchases, files, drafts, started>>
    /\ UNCHANGED <<ctx_rest, outside_bot>>

NextBot ==
    \/ \E user_id \in Users :
           \/ Photo(user_id)
           \/ CreateNewChequePending(user_id)
           \/ AddItemToPendingCheque(user_id)
           \/ DeleteCheque(user_id)
    \/ \E h \in Slots, user_id \in Users :
           \/ SaveStart(h, user_id)
           \/ RetryStart(h, user_id)
    \/ \E h \in Slots :
           \/ SaveCheck(h)
           \/ SaveCheckRaises(h)
           \/ SaveInsert(h)
           \/ SaveInsertFails(h)
           \/ SaveFinish(h)
           \/ RetryOcr(h)
           \/ RetryOcrRaises(h)
           \/ RetryParseRaises(h)
           \/ RetryParseEmpty(h)
           \/ RetryPrepare(h)
           \/ HandlerEnds(h)

SpecBot == InitBot /\ [][NextBot]_vars

\* C24: a save callback that starts while the table holds a cheque of the
\* same username, date and organization with the pending total inserts
\* nothing, whatever the first item of the pending cheque holds.
C24_NoDuplicateSaved ==
    \A h \in Slots :
        handlers[h].duplicate_at_start
            => handlers[h].pc \notin {"inserted", "saved"}

\* C25: the items of one pending cheque are inserted by at most one save
\* callback.
C25_InsertedOnce ==
    \A i, j \in 1..Len(purchases) :
        purchases[i].draft = purchases[j].draft => i = j

\* C26: two different saved cheques never carry the same chequeid in the
\* purchases table.
C26_UniqueChequeId ==
    \A i, j \in 1..Len(purchases) :
        purchases[i].draft # purchases[j].draft
            => purchases[i].chequeid # purchases[j].chequeid

\* the dicts d and e hold the same under the key, or both nothing
SameEntry(d, e, k) ==
    /\ (k \in DOMAIN d) <=> (k \in DOMAIN e)
    /\ (k \in DOMAIN d /\ k \in DOMAIN e) => d[k] = e[k]

\* C27: a failed bulk insert leaves the user's pending cheque and last cheque
\* id as they were; a successful one is followed by clearing the pending
\* cheque and setting the last cheque id to the saved chequeid; a save
\* callback that finds no pending cheque inserts nothing and changes no
\* session state.
C27_SessionOnlyOnSuccess ==
    [][\A h \in Slots, u \in Users :
          handlers'[h].user_id = u =>
              /\ (handlers[h].pc = "insert" /\ handlers'[h].pc = "failed")
                   => /\ SameEntry(_pending_cheques, _pending_cheques', u)
                      /\ SameEntry(_last_cheque, _last_cheque', u)
                      /\ purchases' = purchases
              /\ (handlers[h].pc = "insert" /\ handlers'[h].pc = "inserted")
                   => /\ SameEntry(_pending_cheques, _pending_cheques', u)
                      /\ SameEntry(_last_cheque, _last_cheque', u)
              /\ (handlers[h].pc = "inserted" /\ handlers'[h].pc = "saved")
                   => /\ u \notin DOMAIN _pending_cheques'
                      /\ u \in DOMAIN _last_cheque'
                      /\ _last_cheque'[u] = handlers[h].pending.chequeid
                      /\ purchases' = purchases
              /\ (handlers[h].kind = "idle" /\ handlers'[h].kind = "save"
                     /\ handlers'[h].pc = "no_pending")
                   => /\ purchases' = purchases
                      /\ \A v \in Users :
                            /\ SameEntry(_contexts, _contexts', v)
                            /\ SameEntry(_last_cheque, _last_cheque', v)
                            /\ SameEntry(_last_query, _last_query', v)
                            /\ SameEntry(_pending_cheques, _pending_cheques', v)]_vars

C27_Witness ==
    /\ handlers[1].kind = "save" /\ handlers[1].pc = "failed"
    /\ handlers[1].user_id \in DOMAIN _pending_cheques
    /\ handlers[2].kind = "save" /\ handlers[2].pc = "saved"
    /\ handlers[2].user_id \in DOMAIN _last_cheque
    /\ _last_cheque[handlers[2].user_id] = handlers[2].pending.chequeid

\* C28: a retry callback whose text extraction raises, whose parse raises or
\* whose parse returns no items leaves the pending cheques as they were, and
\* no pending cheque is held for a file that has been deleted.
C28_FailedRetryKeepsDraft ==
    [][/\ \A h \in Slots :
             (/\ handlers[h].kind = "retry"
              /\ handlers'[h].pc \in {"ocr_failed", "parse_failed", "no_items"}
              /\ handlers[h].pc \in {"ocr", "parse"})
                 => UNCHANGED _pending_cheques
       /\ \A u \in DOMAIN _pending_cheques' :
             \/ _pending_cheques'[u].file_path = NoFile
             \/ _pending_cheques'[u].file_path \in files']_vars

-----------------------------------------------------------------------------
(* The operations of ContextManager                                        *)
(* (src/aiAssistant/core/context_manager.py, lines 6-90), called in any   *)
(* order for any user.  The content of a message is the number of the      *)
(* call that added it.                                                     *)

\* self.max_messages (line 8)
max_messages == 2
\* the operations that are called
MaxOps == 4

Roles == {"user", "assistant"}
ChequeIdsSet == {1, 2}
PendingData ==
    {[items |-> <<>>, file_path |-> NoFile, username |-> "alice",
      chequeid |-> c, draft |-> 0] : c \in ChequeIdsSet}

\* s[-n:] of a list
LastN(s, n) ==
    IF n = 0 \/ n >= Len(s) THEN s ELSE SubSeq(s, Len(s) - n + 1, Len(s))

\* the first n of a list
FirstN(s, n) == IF n >= Len(s) THEN s ELSE SubSeq(s, 1, n)

\* a slip in line 21: the oldest messages are kept
add_message_keeps_oldest(user_id, role, content) ==
    LET messages == Append(IF user_id \in DOMAIN _contexts
                           THEN _contexts[user_id] ELSE <<>>,
                           [role |-> role, content |-> content])
    IN  Put(_contexts, user_id,
            IF Len(messages) > max_messages
            THEN FirstN(messages, max_messages) ELSE messages)

\* lines 14-21: _contexts after add_message(user_id, role, content)
add_message(user_id, role, content) ==
    LET messages == Append(IF user_id \in DOMAIN _contexts
                           THEN _contexts[user_id] ELSE <<>>,
                           [role |-> role, content |-> content])
    IN  Put(_contexts, user_id,
            IF Len(messages) > max_messages
            THEN LastN(messages, max_messages) ELSE messages)

InitSession ==
    /\ tesseract_cmd = "tesseract"
    /\ Idle
    /\ LineOff
    /\ ConcOff
    /\ runs = <<>>
    /\ AggOff
    /\ NormOff
    /\ BotOff
    /\ _contexts = EmptyDict /\ _last_cheque = EmptyDict
    /\ _last_query = EmptyDict /\ _pending_cheques = EmptyDict
    /\ last_op = [u \in Users |-> [op |-> "none", params |-> EmptyDict]]
    /\ rpc = "idle" /\ asked = NotAsked /\ resolved = <<None, None>>
    /\ added = [u \in Users |-> <<>>]
    /\ called = NoCall /\ op_count = 0

\* the operation is called for the user
Operation(op, user_id) ==
    /\ op_count < MaxOps
    /\ op_count' = op_count + 1
    /\ called' = [op |-> op, user_id |-> user_id]
    /\ UNCHANGED <<last_op, rpc, asked, resolved>>
    /\ UNCHANGED outside_sess

\* add_message(user_id, role, content), lines 14-21
AddMessage(user_id) ==
    /\ Operation("add_message", user_id)
    /\ \E role \in Roles :
          /\ _contexts' = add_message(user_id, role, op_count + 1)
          /\ added' = [added EXCEPT ![user_id] =
                           Append(@, [role |-> role, content |-> op_count + 1])]
    /\ UNCHANGED <<_last_cheque, _last_query, _pending_cheques>>

\* a slip in lines 33-34: the pending cheques of all users are dropped
ClearContextDropsAllPending(user_id) ==
    /\ Operation("clear_context", user_id)
    /\ _contexts' = Del(_contexts, user_id)
    /\ _last_cheque' = Del(_last_cheque, user_id)
    /\ _last_query' = Del(_last_query, user_id)
    /\ _pending_cheques' = EmptyDict
    /\ added' = [added EXCEPT ![user_id] = <<>>]

\* clear_context(user_id), lines 26-34
ClearContextOf(user_id) ==
    /\ Operation("clear_context", user_id)
    /\ _contexts' = Del(_contexts, user_id)
    /\ _last_cheque' = Del(_last_cheque, user_id)
    /\ _last_query' = Del(_last_query, user_id)
    /\ _pending_cheques' = Del(_pending_cheques, user_id)
    /\ added' = [added EXCEPT ![user_id] = <<>>]

\* set_last_cheque(user_id, chequeid), lines 36-38
SetLastCheque(user_id) ==
    /\ Operation("set_last_cheque", user_id)
    /\ \E chequeid \in ChequeIdsSet :
          _last_cheque' = Put(_last_cheque, user_id, chequeid)
    /\ UNCHANGED <<_contexts, _last_query, _pending_cheques, added>>

\* set_last_query(user_id, query_type, params, result, username), lines 44-60
SetLastQueryOf(user_id) ==
    /\ Operation("set_last_query", user_id)
    /\ \E query_type \in {"fetch_by_period", "get_grouped_stats"} :
          _last_query' = set_last_query(user_id, query_type, EmptyDict,
                                        <<>>, "alice")
    /\ UNCHANGED <<_contexts, _last_cheque, _pending_cheques, added>>

\* clear_last_query(user_id), lines 74-81
ClearLastQueryOf(user_id) ==
    /\ Operation("clear_last_query", user_id)
    /\ _last_query' = Del(_last_query, user_id)
    /\ UNCHANGED <<_contexts, _last_cheque, _pending_cheques, added>>

\* set_pending_cheque(user_id, data), lines 83-84
SetPendingCheque(user_id) ==
    /\ Operation("set_pending_cheque", user_id)
    /\ \E data \in PendingData :
          _pending_cheques' = Put(_pending_cheques, user_id, data)
    /\ UNCHANGED <<_contexts, _last_cheque, _last_query, added>>

\* clear_pending_cheque(user_id), lines 89-90
ClearPendingCheque(user_id) ==
    /\ Operation("clear_pending_cheque", user_id)
    /\ _pending_cheques' = Del(_pending_cheques, user_id)
    /\ UNCHANGED <<_contexts, _last_cheque, _last_query, added>>

NextSession ==
    \E user_id \in Users :
        \/ AddMessage(user_id)
        \/ ClearContextOf(user_id)
        \/ SetLastCheque(user_id)
        \/ SetLastQueryOf(user_id)
        \/ ClearLastQueryOf(user_id)
        \/ SetPendingCheque(user_id)
        \/ ClearPendingCheque(user_id)

SpecSession == InitSession /\ [][NextSession]_vars

\* get_messages(user_id), lines 23-24
get_messages(user_id) == IF user_id \in DOMAIN _contexts
                         THEN _contexts[user_id] ELSE <<>>

\* C29: the history of a user holds at most max_messages entries, and they
\* are the messages most recently added for the user, in the order they were
\* added.
C29_BoundedHistory ==
    \A u \in Users :
        /\ Len(get_messages(u)) <= max_messages
        /\ Len(get_messages(u)) = Min(Len(added[u]), max_messages)
        /\ \A k \in 1..Len(get_messages(u)) :
              get_messages(u)[k] =
                  added[u][Len(added[u]) - Len(get_messages(u)) + k]

\* a user has been given more than max_messages messages and another user
\* holds messages too
C29_Witness ==
    \E u, v \in Users :
        /\ u # v
        /\ Len(added[u]) > max_messages
        /\ Len(get_messages(u)) = max_messages
        /\ Len(get_messages(v)) > 0

\* C30: an operation of the ContextManager called for a user leaves the
\* history, last cheque, last query and pending cheque of every other user
\* as they were, and after clear_context the user has none of the four.
C30_IsolatedPerUser ==
    [][\A u \in Users :
          /\ u # called'.user_id =>
                /\ SameEntry(_contexts, _contexts', u)
                /\ SameEntry(_last_cheque, _last_cheque', u)
                /\ SameEntry(_last_query, _last_query', u)
                /\ SameEntry(_pending_cheques, _pending_cheques', u)
          /\ (u = called'.user_id /\ called'.op = "clear_context") =>
                /\ u \notin DOMAIN _contexts'
                /\ u \notin DOMAIN _last_cheque'
                /\ u \notin DOMAIN _last_query'
                /\ u \notin DOMAIN _pending_cheques']_vars

\* clear_context has just been called for a user, who holds nothing, while
\* another user holds a pending cheque and a last cheque
C30_Witness ==
    \E u, v \in Users :
        /\ u # v
        /\ called = [op |-> "clear_context", user_id |-> u]
        /\ added[u] = <<>>
        /\ u \notin DOMAIN _contexts \cup DOMAIN _pending_cheques
        /\ v \in DOMAIN _pending_cheques \cap DOMAIN _last_cheque

-----------------------------------------------------------------------------
(* aggregate_category2_by_category1 and _normalize_text                    *)
(* (src/aiAssistant/telegram/bot.py, lines 73-104 and 171-201).  Here a    *)
(* text is a sequence of code points and a byte string a sequence of       *)
(* numbers below 256.  The texts given have code points below 2048, and    *)
(* their Cyrillic letters are in U+0410..U+044F.                           *)

\* code points 128..191 of cp1251, 0 where the code page defines none
Cp1251High ==
    <<
      1026, 1027, 8218, 1107, 8222, 8230, 8224, 8225,
      8364, 8240, 1033, 8249, 1034, 1036, 1035, 1039,
      1106, 8216, 8217, 8220, 8221, 8226, 8211, 8212,
      0, 8482, 1113, 8250, 1114, 1116, 1115, 1119,
      160, 1038, 1118, 1032, 164, 1168, 166, 167,
      1025, 169, 1028, 171, 172, 173, 174, 1031,
      176, 177, 1030, 1110, 1169, 181, 182, 183,
      1105, 8470, 1108, 187, 1112, 1029, 1109, 1111
    >>

\* str.encode("latin1", errors="ignore")
latin1_encode(text) ==
    SelectSeq(text, LAMBDA c : c < 256)

\* the byte of c in cp1251, <<>> if it has none
Cp1251Byte(c) ==
    IF c < 128 THEN <<c>>
    ELSE IF c >= 1040 /\ c <= 1103 THEN <<c - 848>>
    ELSE IF \E k \in 1..64 : Cp1251High[k] = c /\ c # 0
         THEN <<127 + (CHOOSE k \in 1..64 : Cp1251High[k] = c)>>
    ELSE <<>>

\* str.encode("cp1251", errors="ignore")
RECURSIVE cp1251_encode_from(_, _)
cp1251_encode_from(text, i) ==
    IF i > Len(text) THEN <<>>
    ELSE Cp1251Byte(text[i]) \o cp1251_encode_from(text, i + 1)

cp1251_encode(text) == cp1251_encode_from(text, 1)

\* the bytes of c in UTF-8, for c below 2048
Utf8Bytes(c) ==
    IF c < 128 THEN <<c>> ELSE <<192 + (c \div 64), 128 + (c % 64)>>

\* str.encode("utf-8", errors="ignore")
RECURSIVE utf8_encode_from(_, _)
utf8_encode_from(text, i) ==
    IF i > Len(text) THEN <<>>
    ELSE Utf8Bytes(text[i]) \o utf8_encode_from(text, i + 1)

utf8_encode(text) == utf8_encode_from(text, 1)

\* the character of byte b in cp1251, <<>> for the undefined byte 0x98
Cp1251Char(b) ==
    IF b < 128 THEN <<b>>
    ELSE IF b >= 192 THEN <<b + 848>>
    ELSE IF Cp1251High[b - 127] = 0 THEN <<>>
    ELSE <<Cp1251High[b - 127]>>

\* bytes.decode("cp1251", errors="ignore")
RECURSIVE cp1251_decode_from(_, _)
cp1251_decode_from(bytes, i) ==
    IF i > Len(bytes) THEN <<>>
    ELSE Cp1251Char(bytes[i]) \o cp1251_decode_from(bytes, i + 1)

cp1251_decode(bytes) == cp1251_decode_from(bytes, 1)

\* b continues a UTF-8 sequence
IsContinuation(b) == b >= 128 /\ b <= 191

\* bytes.decode("utf-8", errors="ignore"): a byte below 128 is a character,
\* a lead byte 0xC2..0xDF with a continuation byte is one, and a byte that
\* starts no complete sequence is skipped (no byte string here holds a
\* complete sequence of three or four bytes)
RECURSIVE utf8_decode_from(_, _)
utf8_decode_from(bytes, i) ==
    IF i > Len(bytes) THEN <<>>
    ELSE IF bytes[i] < 128 THEN <<bytes[i]>> \o utf8_decode_from(bytes, i + 1)
    ELSE IF /\ bytes[i] >= 194 /\ bytes[i] <= 223
            /\ i < Len(bytes) /\ IsContinuation(bytes[i + 1])
         THEN <<(bytes[i] - 192) * 64 + (bytes[i + 1] - 128)>>
                  \o utf8_decode_from(bytes, i + 2)
    ELSE utf8_decode_from(bytes, i + 1)

utf8_decode(bytes) == utf8_decode_from(bytes, 1)

\* str.isspace() for the code points below 256
UnicodeSpace == {9, 10, 11, 12, 13, 28, 29, 30, 31, 32, 133, 160}

\* str.strip()
strip(text) ==
    LET K == {j \in 1..Len(text) : text[j] \notin UnicodeSpace}
    IN  IF K = {} THEN <<>> ELSE SubSeq(text, MinOf(K), MaxOf(K))

\* str.lower() of one code point of ASCII, Latin-1 or the Cyrillic block
\* U+0400..U+045F and U+0490
LowerChar(c) ==
    IF c >= 65 /\ c <= 90 THEN c + 32
    ELSE IF c >= 192 /\ c <= 222 /\ c # 215 THEN c + 32
    ELSE IF c >= 1040 /\ c <= 1071 THEN c + 32
    ELSE IF c >= 1024 /\ c <= 1039 THEN c + 80
    ELSE IF c = 1168 THEN 1169
    ELSE c

\* str.lower()
lower_text(text) == [k \in 1..Len(text) |-> LowerChar(text[k])]

\* lines 100-101, score
text_score(text) == Cardinality({k \in 1..Len(text) : text[k] >= 1024 /\ text[k] <= 1279})

\* item.get(...) of a key the record lacks, and the argument None
NoneText == <<0>>

\* lines 79-98: the candidates of a stripped text that is not empty
Candidates(base) ==
    {t \in {base,
            utf8_decode(latin1_encode(base)),
            cp1251_decode(latin1_encode(base)),
            utf8_decode(cp1251_encode(base)),
            cp1251_decode(utf8_encode(base)),
            cp1251_decode([k \in 1..Len(base) |-> base[k] % 256])} : t # <<>>}

\* lines 73-104: the texts a call can return.  max() returns the first
\* candidate of greatest score in the iteration order of a set of strings,
\* which depends on the hash seed of the process
_normalize_text(value) ==
    IF value = NoneText \/ strip(value) = <<>> THEN {<<>>}
    ELSE LET candidates_ == Candidates(strip(value))
         IN  {lower_text(t) : t \in {c \in candidates_ :
                 \A d \in candidates_ : text_score(d) <= text_score(c)}}

\* "Без категории2"
DefaultGroup ==
    <<1041, 1077, 1079, 32, 1082, 1072, 1090, 1077, 1075, 1086, 1088, 1080,
      1080, 50>>

\* item.get("chequeid") of a record without one
NoCheque == 0
\* item.get("price") of a record without one
NoPrice == -1
\* a price that float() rejects
BadPrice == -2

\* line 177
group_name(item) ==
    strip(IF item.category2 \in {NoneText, <<>>} THEN DefaultGroup
          ELSE item.category2)

\* lines 183-186: what the record adds to the total, in hundredths
PriceOf(item) == IF item.price < 0 THEN 0 ELSE item.price

\* the members of a set of numbers in increasing order
RECURSIVE Ascending(_)
Ascending(S) ==
    IF S = {} THEN <<>> ELSE <<MinOf(S)>> \o Ascending(S \ {MinOf(S)})

RECURSIVE SumPrices(_, _)
SumPrices(items, K) ==
    IF K = {} THEN 0
    ELSE PriceOf(items[MinOf(K)]) + SumPrices(items, K \ {MinOf(K)})

\* lines 190-199: the row of the bucket named name
Row(items, name) ==
    LET K == {k \in 1..Len(items) : group_name(items[k]) = name}
    IN  [group_name |-> name,
         count |-> Cardinality(K),
         cheque_count |-> Cardinality({items[k].chequeid : k \in K} \ {NoCheque}),
         total |-> SumPrices(items, K)]

\* line 200: list.sort(key=total, reverse=True); rows of equal total keep
\* their order
RECURSIVE SortByTotal(_)
SortByTotal(rs) ==
    IF rs = <<>> THEN <<>>
    ELSE LET i == CHOOSE i \in 1..Len(rs) :
                      /\ \A j \in 1..Len(rs) : rs[j].total <= rs[i].total
                      /\ \A j \in 1..(i - 1) : rs[j].total < rs[i].total
         IN  <<rs[i]>> \o SortByTotal(SubSeq(rs, 1, i - 1) \o SubSeq(rs, i + 1, Len(rs)))

\* lines 171-201; nt is _normalize_text as it answers in this process
aggregate_category2_by_category1(recs, value, nt) ==
    LET items == SelectSeq(recs, LAMBDA item : nt[item.category1] = nt[value])
        First == {k \in 1..Len(items) :
                     \A j \in 1..(k - 1) : group_name(items[j]) # group_name(items[k])}
        order == Ascending(First)
    IN  SortByTotal([n \in 1..Len(order) |-> Row(items, group_name(items[order[n]]))])

\* the values of category1: None, "a", " A", U+0418, U+0420
Category1Values == {NoneText, <<97>>, <<32, 65>>, <<1048>>, <<1056>>}
\* the values asked for: "a", "", U+0420
Category1Asked == {<<97>>, <<>>, <<1056>>}
\* the values of category2: None, "x", " x"
Category2Values == {NoneText, <<120>>, <<32, 120>>}
\* prices in hundredths
PriceValues == {NoPrice, BadPrice, 10000}
ChequeIds == {NoCheque, 1, 2}

Records ==
    [category1 : Category1Values, category2 : Category2Values,
     price : PriceValues, chequeid : ChequeIds]

\* the record lists given
RecordLists == {<<>>} \cup {<<r>> : r \in Records}
                   \cup {<<r, q>> : r \in Records, q \in Records}

\* the functions that give each text of S one of the texts _normalize_text
\* can return for it
RECURSIVE Choices(_)
Choices(S) ==
    IF S = {} THEN {EmptyDict}
    ELSE LET v == CHOOSE v \in S : TRUE
         IN  {Put(f, v, n) : f \in Choices(S \ {v}), n \in _normalize_text(v)}

InitAgg ==
    /\ tesseract_cmd = "tesseract"
    /\ Idle
    /\ LineOff
    /\ ConcOff
    /\ runs = <<>>
    /\ CtxOff
    /\ BotOff
    /\ SessOff
    /\ NormOff
    /\ apc = "given"
    /\ records \in RecordLists
    /\ category1_value \in Category1Asked
    /\ normalize \in Choices(Category1Values \cup Category1Asked)
    /\ rows = <<>>

\* aggregate_category2_by_category1(records, category1_value) is called
Aggregate ==
    /\ apc = "given"
    /\ rows' = aggregate_category2_by_category1(records, category1_value, normalize)
    /\ apc' = "done"
    /\ UNCHANGED <<records, category1_value, normalize>>
    /\ UNCHANGED outside_agg

NextAgg == Aggregate

SpecAgg == InitAgg /\ [][NextAgg]_vars

-----------------------------------------------------------------------------
(* _postprocess_line (lines 298-342) applied to a line, and again to its   *)
(* result.                                                                 *)

Prices == {<<"4", "9", ".", "9", "0">>, <<"1", ".", "5">>}
Quantities == {<<"2">>, <<"3">>}
Totals == {<<"8", "9", ".", "0", "0">>, <<"9", "9", ".", "8", "0">>, <<"3", ".", "0">>}
\* between price and quantity: a space or "*", whitespace around it
PriceSeps == {<<" ">>, <<" ", "*">>, <<" ", "*", " ">>, <<"*">>}
\* between quantity and total: whitespace or "=", whitespace around it
TotalSeps == {<<" ">>, <<" ", "=", " ">>, <<"=">>, <<" ", " ", "=">>}

PriceLines ==
    [price : Prices, sep1 : PriceSeps, qty : Quantities, sep2 : TotalSeps,
     total : Totals]

Compose(p) == p.price \o p.sep1 \o p.qty \o p.sep2 \o p.total

\* lines of other shapes
OtherLines ==
    {<<>>, <<" ">>, <<"a">>, <<"=", "=", "=", "=">>, <<"=", "=">>, <<"1">>,
     <<"a", "\"", "\"", "\"", "b">>, <<CyrGhe, " ", CyrGhe, " ", "x">>,
     <<"a", " ", "#", "2">>, <<"x", " ", "=", "5">>, <<"=">>,
     <<" ", "=", "=", "=", " ">>, <<"=", "=", "=", "a">>,
     <<"a", "\"", "2">>, <<"=", "=", "=", "1", "2">>,
     <<"7", " ", " ", "1", "2", "=", "x">>, <<CyrGhe, " ", "1">>}

InitLine ==
    /\ tesseract_cmd = "tesseract"
    /\ Idle
    /\ ConcOff
    /\ runs = <<>>
    /\ CtxOff
    /\ AggOff
    /\ SessOff
    /\ BotOff
    /\ NormOff
    /\ lpc = "line" /\ once = <<>> /\ twice = <<>>
    /\ \/ parts \in PriceLines /\ line = Compose(parts)
       \/ parts = NoParts /\ line \in OtherLines

ApplyOnce ==
    /\ lpc = "line"
    /\ once' = _postprocess_line(line)
    /\ lpc' = "once"
    /\ UNCHANGED <<parts, line, twice>>
    /\ UNCHANGED outside_line

ApplyTwice ==
    /\ lpc = "once"
    /\ twice' = _postprocess_line(once)
    /\ lpc' = "twice"
    /\ UNCHANGED <<parts, line, once>>
    /\ UNCHANGED outside_line

NextLine ==
    \/ ApplyOnce
    \/ ApplyTwice

SpecLine == InitLine /\ [][NextLine]_vars

-----------------------------------------------------------------------------
(* _normalize_cyrillic (lines 232-290) applied to a text.                  *)

\* the pieces the texts are made of: "5", " ", U+0436 U+043A, "|", U+00BB,
\* "a", "0" U+0411 U+041B, "HAC"
NormPieces ==
    {<<"5">>, <<" ">>, <<"U+0436", "U+043A">>, <<"|">>, <<"U+00BB">>, <<"a">>,
     <<"0", "U+0411", "U+041B">>, <<"H", "A", "C">>}

\* the texts of at most three pieces
NormTexts ==
    {<<>>} \cup NormPieces \cup {a \o b : a \in NormPieces, b \in NormPieces}
        \cup {a \o b \o c : a \in NormPieces, b \in NormPieces, c \in NormPieces}

InitNorm ==
    /\ tesseract_cmd = "tesseract"
    /\ Idle
    /\ LineOff
    /\ ConcOff
    /\ runs = <<>>
    /\ CtxOff
    /\ AggOff
    /\ SessOff
    /\ BotOff
    /\ npc = "given"
    /\ norm_arg \in NormTexts
    /\ normalized = <<>>

\* _normalize_cyrillic(text) is called
Normalize ==
    /\ npc = "given"
    /\ normalized' = _normalize_cyrillic(norm_arg)
    /\ npc' = "done"
    /\ UNCHANGED norm_arg
    /\ UNCHANGED outside_norm

NextNorm == Normalize

SpecNorm == InitNorm /\ [][NextNorm]_vars

-----------------------------------------------------------------------------
(* Either function of the text normalizer and line postprocessor applied   *)
(* to an input.                                                            *)

InitText == InitNorm \/ InitLine

NextText ==
    \/ Normalize
    \/ ApplyOnce
    \/ ApplyTwice

SpecText == InitText /\ [][NextText]_vars

-----------------------------------------------------------------------------
(* Two calls of parse_receipt_text in two threads of one process, as       *)
(* asyncio.to_thread(extract_receipt_text, ...) of bot.py line 1599 runs   *)
(* them.  The file system is ConcEnv.                                      *)

InitConc ==
    /\ tesseract_cmd = "tesseract"
    /\ Idle
    /\ LineOff
    /\ cpc = [t \in Threads |-> "idle"]
    /\ carg = [t \in Threads |-> None]
    /\ cresolved = [t \in Threads |-> ""]
    /\ cn = [t \in Threads |-> 0]
    /\ cused = [t \in Threads |-> {}]
    /\ runs = <<>>
    /\ CtxOff
    /\ AggOff
    /\ SessOff
    /\ BotOff
    /\ NormOff

\* thread t calls parse_receipt_text(..., tesseract_cmd=cmd); line 352 passes
ConcCall(t) ==
    /\ cpc[t] = "idle"
    /\ \E cmd \in CmdArgs : carg' = [carg EXCEPT ![t] = cmd]
    /\ cpc' = [cpc EXCEPT ![t] = "resolve"]
    /\ cresolved' = [cresolved EXCEPT ![t] = ""]
    /\ cn' = [cn EXCEPT ![t] = 0]
    /\ cused' = [cused EXCEPT ![t] = {}]
    /\ UNCHANGED <<pipeline_vars, outside_conc>>

\* line 353 in thread t: the command resolved is written to the process-wide
\* pytesseract.pytesseract.tesseract_cmd
ConcResolve(t) ==
    /\ cpc[t] = "resolve"
    /\ LET r == _resolve_tesseract_cmd(carg[t], ConcEnv)
       IN  /\ cresolved' = [cresolved EXCEPT ![t] = r.cmd]
           /\ tesseract_cmd' = r.cmd
    /\ cpc' = [cpc EXCEPT ![t] = "prepare"]
    /\ UNCHANGED <<pc, image_path, tesseract_cmd_arg, preserve_empty_lines, env,
                   cmd_at_entry, error, image, normalized_image,
                   candidates, vi, ci, best_text, best_score, result, calls, hyps,
                   resolve_calls, which_calls, osd_calls>>
    /\ UNCHANGED <<carg, cn, cused>>
    /\ UNCHANGED outside_conc

\* lines 355-382 in thread t: local variables only
ConcPrepare(t) ==
    /\ cpc[t] = "prepare"
    /\ cpc' = [cpc EXCEPT ![t] = "recognize"]
    /\ UNCHANGED <<carg, cresolved, cn, cused>>
    /\ UNCHANGED <<pipeline_vars, outside_conc>>

\* lines 384-390 in thread t, one turn of the inner loop: pytesseract runs
\* the executable that tesseract_cmd names at this moment
ConcRecognize(t) ==
    /\ cpc[t] = "recognize"
    /\ cused' = [cused EXCEPT ![t] = cused[t] \cup {tesseract_cmd}]
    /\ cn' = [cn EXCEPT ![t] = cn[t] + 1]
    /\ cpc' = [cpc EXCEPT ![t] =
                  IF cn[t] + 1 = Len(Enumeration) THEN "returned" ELSE "recognize"]
    /\ UNCHANGED <<carg, cresolved>>
    /\ UNCHANGED <<pipeline_vars, outside_conc>>

\* the call of thread t is over
ConcFinish(t) ==
    /\ cpc[t] = "returned"
    /\ cpc' = [cpc EXCEPT ![t] = "idle"]
    /\ UNCHANGED <<carg, cresolved, cn, cused>>
    /\ UNCHANGED <<pipeline_vars, outside_conc>>

NextConc ==
    \E t \in Threads :
        \/ ConcCall(t)
        \/ ConcResolve(t)
        \/ ConcPrepare(t)
        \/ ConcRecognize(t)
        \/ ConcFinish(t)

SpecConc == InitConc /\ [][NextConc]_vars

-----------------------------------------------------------------------------
(* Properties of the recognition loop and of the selection.                *)

\* C1: a recognition that raises does not abort the run: no call of
\* parse_receipt_text ends with the error of a recognition
C1_RecognitionFailureNotFatal ==
    ~(pc = "raised" /\ calls # <<>> /\ error = "TesseractError")

\* a is a greater score than b
Greater(a, b) ==
    /\ ~a.neginf
    /\ b.neginf \/ a.num * b.den > b.num * a.den

\* the first position of h that holds a text of the greatest score
FirstGreatest(h) ==
    Strict([k \in 1..Len(h) |-> _score_text(h[k])], LAMBDA score :
        CHOOSE k \in 1..Len(h) :
            /\ \A j \in 1..Len(h) : ~Greater(score[j], score[k])
            /\ \A j \in 1..(k - 1) : Greater(score[k], score[j]))

\* C2: the text selected is the hypothesis of the greatest score, and among
\* those of equal greatest score the earliest in the enumeration order; the
\* selection is over all 24 hypotheses, taken in variant-major order
C2_FirstGreatestSelected ==
    /\ hyps # <<>> => best_text = hyps[FirstGreatest(hyps)]
    /\ pc \in {"postprocess", "returned"} =>
          Len(hyps) = Len(Enumeration) /\ calls = Enumeration

\* two hypotheses of equal score: the earlier one, "7", is returned
C2_Witness ==
    /\ pc = "returned"
    /\ best_text = <<"7">>
    /\ \E i, j \in 1..Len(hyps) : i < j /\ hyps[i] = <<"7">> /\ hyps[j] = <<"8">>

\* C3: the empty text scores negative infinity, and whenever one of the
\* hypotheses is not empty the text selected is not empty
C3_EmptyNeverSelected ==
    /\ \A k \in 1..Len(hyps) : hyps[k] = <<>> => _score_text(hyps[k]) = NegInf
    /\ (\E k \in 1..Len(hyps) : hyps[k] # <<>>) => best_text # <<>>

\* the first 23 hypotheses are empty and the last one is selected
C3_Witness ==
    /\ pc = "returned"
    /\ Len(hyps) = Len(Enumeration)
    /\ \A k \in 1..(Len(hyps) - 1) : hyps[k] = <<>>
    /\ best_text = hyps[Len(hyps)] /\ best_text # <<>>

\* C4: a call that reaches the recognition loop invokes the engine exactly
\* once for each of the 24 (variant, config) pairs, in variant-major order
C4_EveryPairExactlyOnce ==
    (pc \in {"returned", "raised"} /\ calls # <<>>) => calls = Enumeration

\* the lines of the normalized best text, each postprocessed
ProcessedBest ==
    Strict(splitlines(_normalize_cyrillic(best_text)), LAMBDA lines :
        [k \in 1..Len(lines) |-> _postprocess_line(lines[k])])

\* the lines of s that are not empty, in their order
NonEmpty(s) == SelectSeq(s, LAMBDA l : l # <<>>)

\* what extract_receipt_text returns for this call
Primary == extract_receipt_text(result)

\* C16: the text extract_receipt_text returns has no empty line (no newline
\* at its start or end, no two newlines in a row) and its lines are the
\* postprocessed lines of the best text that are not empty, in their order
C16_PrimaryOutput ==
    (pc = "returned" /\ ~preserve_empty_lines)
        => /\ Primary # <<>> => Primary[1] # "\n" /\ Primary[Len(Primary)] # "\n"
           /\ \A i \in 1..(Len(Primary) - 1) :
                 ~(Primary[i] = "\n" /\ Primary[i + 1] = "\n")
           /\ splitlines(Primary) = NonEmpty(ProcessedBest)

\* the best text has four lines, two of them empty once postprocessed
C16_Witness ==
    /\ pc = "returned" /\ ~preserve_empty_lines
    /\ best_text = Receipt
    /\ Primary = <<CyrO, CyrO, CyrO, "\n", "7">>

\* C17: with preserve_empty_lines the call returns one entry per line of the
\* normalized best text, and without its empty entries that list is the list
\* the call returns without preserve_empty_lines
C17_SecondaryOutput ==
    (pc = "returned" /\ preserve_empty_lines)
        => /\ Len(result) = Len(splitlines(_normalize_cyrillic(best_text)))
           /\ NonEmpty(result) = Lines(best_text, FALSE)

\* four entries, the second and the third empty
C17_Witness ==
    /\ pc = "returned" /\ preserve_empty_lines
    /\ best_text = Receipt
    /\ result = <<<<CyrO, CyrO, CyrO>>, <<>>, <<>>, <<"7">>>>

\* every pair has been recognized and the engine read nothing in any
AllBlank ==
    /\ Len(hyps) = 24
    /\ \A k \in 1..Len(hyps) : hyps[k] = <<>>

\* C20: when all 24 hypotheses are empty the call does not fail, the best
\* text is empty, parse_receipt_text returns no line and
\* extract_receipt_text returns the empty text
C20_AllBlank ==
    AllBlank
        => /\ pc \in {"postprocess", "returned"} /\ error = "none"
           /\ best_text = <<>> /\ best_score = NegInf
           /\ pc = "returned" => result = <<>> /\ Primary = <<>>

\* the call has returned, also when asked to keep empty lines
C20_Witness ==
    /\ AllBlank /\ pc = "returned" /\ preserve_empty_lines
    /\ calls = Enumeration /\ result = <<>>

-----------------------------------------------------------------------------
(* Properties of the steps before the recognition loop.                    *)

\* the call is past line 352
Validated == pc \notin {"idle", "validate"}

\* C5: a call whose file is missing or whose extension is not supported
\* fails with NotFound or UnsupportedFormat before the engine location is
\* resolved, before the process-wide command is written, before the image is
\* decoded and before any orientation detection or recognition
C5_InvalidPathFailsFirst ==
    (Validated /\ (env.is_file = "no" \/ lower(image_path) \notin _SUPPORTED_SUFFIXES))
        => /\ pc = "raised"
           /\ error \in {"NotFound", "UnsupportedFormat"}
           /\ resolve_calls = 0 /\ which_calls = 0
           /\ tesseract_cmd = cmd_at_entry
           /\ image = NoImage
           /\ osd_calls = 0 /\ calls = <<>>

\* an earlier call has set the process-wide command; this call names another
\* command and fails on a missing file
C5_Witness ==
    /\ pc = "raised" /\ error = "NotFound"
    /\ tesseract_cmd_arg = ExplicitCmd
    /\ cmd_at_entry = PathCmd /\ tesseract_cmd = PathCmd

\* C6 (as stated): every path whose extension is not supported fails with
\* UnsupportedFormat
C6_UnsupportedExtensionAlone ==
    (Validated /\ lower(image_path) \notin _SUPPORTED_SUFFIXES)
        => pc = "raised" /\ error = "UnsupportedFormat"

\* C6 (amended): an existing file whose extension is not supported fails with
\* UnsupportedFormat, a missing path fails with NotFound whatever its
\* extension, and neither reads the file's contents
C6_UnsupportedExtensionOfExistingFile ==
    (Validated /\ lower(image_path) \notin _SUPPORTED_SUFFIXES)
        => /\ pc = "raised"
           /\ env.is_file = "yes" => error = "UnsupportedFormat"
           /\ env.is_file = "no" => error = "NotFound"
           /\ image = NoImage /\ osd_calls = 0 /\ calls = <<>>

\* an existing file named *.GIF
C6_Witness ==
    /\ pc = "raised" /\ error = "UnsupportedFormat"
    /\ image_path = ".GIF" /\ env.is_file = "yes"

\* what _resolve_tesseract_cmd found leaves no executable to use
Unresolvable ==
    \/ Truthy(tesseract_cmd_arg) /\ env.cmd_is_file = "no"
    \/ /\ ~Truthy(tesseract_cmd_arg)
       /\ env.which = ""
       /\ env.system = "linux" \/ (env.default1 = "no" /\ env.default2 = "no")

\* C7: when no executable can be resolved the call fails with
\* EngineUnavailable; nothing is decoded, detected, recognized or returned,
\* and an explicit command that is not a file is not replaced by a search of
\* PATH
C7_NoEngineIsFatal ==
    (resolve_calls = 1 /\ Unresolvable)
        => /\ pc = "raised" /\ error = "EngineUnavailable"
           /\ image = NoImage /\ osd_calls = 0 /\ calls = <<>> /\ result = <<>>
           /\ tesseract_cmd = cmd_at_entry
           /\ Truthy(tesseract_cmd_arg) => which_calls = 0

\* an explicit command that is not a file
C7_Witness ==
    /\ pc = "raised" /\ error = "EngineUnavailable"
    /\ tesseract_cmd_arg = ExplicitCmd /\ env.cmd_is_file = "no"
    /\ env.which = "unknown"

\* C8: a failure of the orientation detector, of whatever kind, never makes
\* the call fail
C8_OrientationFailureNotFatal ==
    ~(pc = "raised" /\ osd_calls = 1 /\ calls = <<>> /\ error = "OtherError")

EndsWith(s, p) == Len(s) >= Len(p) /\ SubSeq(s, Len(s) - Len(p) + 1, Len(s)) = p

\* round(price * quantity, 2) for the tokens of a price line
Expected(p) == ExpectedCents(ParseDecimal(p.price), ParseDecimal(p.qty))

C14_CallsUseOwnCommand ==
    \A t \in Threads : \A cmd \in cused[t] : cmd = cresolved[t]

\* C15: two calls of extract_receipt_text with the same image and the same
\* engine return the same text, whatever calls came between them
C15_Deterministic ==
    \A i, j \in 1..Len(runs) :
        (runs[i].path = runs[j].path /\ runs[i].cmd = runs[j].cmd)
            => runs[i].text = runs[j].text

\* the same call before and after a call for another image with another
\* engine
C15_Witness ==
    /\ Len(runs) = 3
    /\ runs[1].path = runs[3].path /\ runs[1].cmd = runs[3].cmd
    /\ runs[2].path # runs[1].path /\ runs[2].cmd # runs[1].cmd
    /\ runs[1].text # <<>> /\ runs[2].text # <<>>
    /\ runs[2].text # runs[1].text

-----------------------------------------------------------------------------
(* Properties of resolve_period_for_message.                               *)

\* the message of the call holds no period
NoPeriodAsked == rpc = "resolved" /\ asked.detected = <<None, None>>

\* the cache of the user asked for holds a query with both dates
CachedPeriod ==
    /\ asked.user_id \in DOMAIN _last_query
    /\ "start_date" \in DOMAIN _last_query[asked.user_id].params
    /\ "end_date" \in DOMAIN _last_query[asked.user_id].params
    /\ _last_query[asked.user_id].params["start_date"] \notin {None, ""}
    /\ _last_query[asked.user_id].params["end_date"] \notin {None, ""}

\* first day of the month of the call to the day of the call
CurrentMonthAsked ==
    IF asked.today = <<4, 11, 2026>> THEN <<"01.11.2026", "04.11.2026">>
    ELSE <<"01.12.2026", "01.12.2026">>

\* C18: a period found in the message is returned; without one, the period
\* of the user's cached last query if it holds both dates; otherwise the
\* current month.  After clear_context(user) a message without a period
\* gives the current month, after set_last_query with a period that period
C18_PeriodPriority ==
    /\ (rpc = "resolved" /\ asked.detected # <<None, None>>)
          => resolved = asked.detected
    /\ (NoPeriodAsked /\ CachedPeriod)
          => resolved = <<_last_query[asked.user_id].params["start_date"],
                          _last_query[asked.user_id].params["end_date"]>>
    /\ (NoPeriodAsked /\ ~CachedPeriod) => resolved = CurrentMonthAsked
    /\ (NoPeriodAsked /\ last_op[asked.user_id].op = "clear_context")
          => resolved = CurrentMonthAsked
    /\ (NoPeriodAsked /\ last_op[asked.user_id]
                            = [op |-> "set_last_query",
                               params |-> [start_date |-> "05.11.2025",
                                           end_date |-> "07.11.2025"]])
          => resolved = <<"05.11.2025", "07.11.2025">>

\* the message names a period while the cache of the user holds another
C18_Witness ==
    /\ rpc = "resolved" /\ CachedPeriod
    /\ asked.detected = <<"01.10.2025", "31.10.2025">>
    /\ resolved = <<"01.10.2025", "31.10.2025">>
    /\ \E u \in Users : last_op[u].op = "clear_context"

-----------------------------------------------------------------------------
(* Properties of aggregate_category2_by_category1.                         *)

\* the positions of the records whose category1 is the value asked for
Selected == {k \in 1..Len(records) : records[k].category1 = category1_value}

\* the positions of the selected records of category2 c
SelectedOf(c) == {k \in Selected : records[k].category2 = c}

\* C19: the rows are one per distinct category2 among the records whose
\* category1 equals the value asked for and no other record contributes;
\* count is the number of those records, cheque_count the number of their
\* distinct chequeids, total the sum of their prices, and the rows come by
\* total descending
C19_StrictFilter ==
    apc = "done"
        => /\ Len(rows) = Cardinality({records[k].category2 : k \in Selected})
           /\ \A n \in 1..Len(rows) :
                 \E c \in {records[k].category2 : k \in Selected} :
                     /\ rows[n].count = Cardinality(SelectedOf(c))
                     /\ rows[n].cheque_count =
                            Cardinality({records[k].chequeid : k \in SelectedOf(c)}
                                          \ {NoCheque})
                     /\ rows[n].total = SumPrices(records, SelectedOf(c))
           /\ \A n \in 1..(Len(rows) - 1) : rows[n].total >= rows[n + 1].total

-----------------------------------------------------------------------------
(* Properties of refresh_last_query.                                       *)

\* the entry of user u before the refresh that was the last operation on it
Before(u) == last_op[u].params

\* C23: a refresh of a cached query that has both dates leaves its type and
\* its params as they were, and a refresh without a cached query stores the
\* grouping by category1 for the current month
C23_OnlyResultChanges ==
    \A u \in Users :
        last_op[u].op = "refresh_last_query" =>
            /\ u \in DOMAIN _last_query
            /\ (/\ Before(u) # EmptyDict
                /\ Truthy(Get(Before(u).params, "start_date"))
                /\ Truthy(Get(Before(u).params, "end_date")))
                  => /\ _last_query[u].type = Before(u).type
                     /\ _last_query[u].params = Before(u).params
            /\ Before(u) = EmptyDict
                  => /\ _last_query[u].type = "get_grouped_by_category1"
                     /\ _last_query[u].params.field = "category1"

-----------------------------------------------------------------------------
(* Properties of _normalize_cyrillic.                                      *)

\* C21: the text _normalize_cyrillic returns holds no two consecutive spaces
C21_NoSpaceRun ==
    npc = "done" => ~Contains(normalized, <<" ", " ">>)

-----------------------------------------------------------------------------
(* Properties of _postprocess_line.                                        *)

\* the maximal runs of digits of s from position i on, in their order
RECURSIVE NumericTokensFrom(_, _)
NumericTokensFrom(s, i) ==
    LET M == {j \in i..Len(s) : s[j] \in Digits}
    IN  IF M = {} THEN <<>>
        ELSE <<SubSeq(s, MinOf(M), MinOf(M) + Run(s, MinOf(M), Digits) - 1)>>
                 \o NumericTokensFrom(s, MinOf(M) + Run(s, MinOf(M), Digits))

NumericTokens(s) == NumericTokensFrom(s, 1)

IsString(s) == s \in Seq(STRING)

C9_TotalReplaced ==
    (lpc # "line" /\ parts # NoParts
        /\ TotalIsOff(Expected(parts), ParseDecimal(parts.total)))
        => /\ StartsWith(once, parts.price)
           /\ Contains(once, parts.qty)
           /\ EndsWith(once, FormatCents(Expected(parts)))

\* C10: _postprocess_line applied to its own result returns that result
C10_Idempotent == lpc = "twice" => twice = once

\* C11: in a line whose price and quantity are separated only by a space,
\* one application inserts each missing operator: the result holds "*"
\* directly before the quantity and "=" between quantity and total
C11_MissingOperatorsInserted ==
    (lpc # "line" /\ parts # NoParts /\ parts.sep1 = <<" ">>)
        => /\ Contains(once, <<"*">> \o parts.qty)
           /\ Contains(once, parts.qty \o <<" ", "=", " ">>)

\* the line is one or more "=" with optional whitespace around them
IsSeparatorNoise(l) ==
    /\ Strip(l) # <<>>
    /\ \A i \in 1..Len(Strip(l)) : Strip(l)[i] = "="

\* C12: every line made only of "=" (whitespace around them aside) is mapped
\* to the empty line, and a line that starts with "=" but carries other
\* content is not
C12_SeparatorNoiseDropped ==
    (lpc # "line" /\ parts = NoParts)
        => /\ IsSeparatorNoise(line) => once = <<>>
           /\ (StartsWith(Strip(line), <<"=">>) /\ ~IsSeparatorNoise(line))
                 => once # <<>>

=============================================================================
